---- MODULE Spec2Model ----
\* Verification model of the benchmark service's Inspect AI runner
\* (src/benchmark-service/inspect_runner.py): command construction,
\* per-sample correctness extraction and the event stream of one run.
EXTENDS Integers, Sequences, FiniteSets, TLC

\* ---------------------------------------------------------------------------
\* Bounds of the model
\* ---------------------------------------------------------------------------
MaxBlocks == 2
MaxSamples == 2
MaxEpochs == 2

\* ---------------------------------------------------------------------------
\* Python values
\* ---------------------------------------------------------------------------
\* Optional[T]: None is the empty tuple, a present value v is <<v>>.
None == <<>>

Some(v) == <<v>>

\* A Python str is a sequence of characters; a literal chunk is one element.
L(s) == <<s>>

Digits == <<"0", "1", "2", "3", "4", "5", "6", "7", "8", "9">>

RECURSIVE NatStr(_)
NatStr(n) == IF n < 10 THEN <<Digits[n + 1]>>
             ELSE NatStr(n \div 10) \o <<Digits[(n % 10) + 1]>>

\* str(n) for an int
IntStr(n) == IF n < 0 THEN <<"-">> \o NatStr(0 - n) ELSE NatStr(n)

\* str(x) for a float given in tenths (0.0, 0.7, 2.0, ...)
FloatStr(t) == IF t < 0 THEN <<"-">> \o NatStr((0 - t) \div 10) \o <<".">> \o NatStr((0 - t) % 10)
               ELSE NatStr(t \div 10) \o <<".">> \o NatStr(t % 10)

UpperCase == <<"A", "B", "C", "D", "E", "F", "G", "H", "I", "J", "K", "L", "M",
               "N", "O", "P", "Q", "R", "S", "T", "U", "V", "W", "X", "Y", "Z">>

LowerCase == <<"a", "b", "c", "d", "e", "f", "g", "h", "i", "j", "k", "l", "m",
               "n", "o", "p", "q", "r", "s", "t", "u", "v", "w", "x", "y", "z">>

LowerChar(c) == IF \E i \in 1..26 : UpperCase[i] = c
                THEN LowerCase[CHOOSE i \in 1..26 : UpperCase[i] = c]
                ELSE c

UpperChar(c) == IF \E i \in 1..26 : LowerCase[i] = c
                THEN UpperCase[CHOOSE i \in 1..26 : LowerCase[i] = c]
                ELSE c

\* str.lower() and str.upper()
Lower(s) == [i \in 1..Len(s) |-> LowerChar(s[i])]

Upper(s) == [i \in 1..Len(s) |-> UpperChar(s[i])]

\* Python's "p in s" on strings
Contains(s, p) ==
    \/ p = <<>>
    \/ \E i \in 0..(Len(s) - Len(p)) : s[i + 1] = p[1] /\ SubSeq(s, i + 1, i + Len(p)) = p

\* ---------------------------------------------------------------------------
\* Static tables
\* ---------------------------------------------------------------------------
PROVIDERS ==
  [ openrouter |-> [name |-> "OpenRouter", base_url |-> Some("https://openrouter.ai/api/v1"),
                    api_key_env |-> "OPENROUTER_API_KEY", model_prefix |-> "openai/"],
    openai     |-> [name |-> "OpenAI", base_url |-> Some("https://api.openai.com/v1"),
                    api_key_env |-> "OPENAI_API_KEY", model_prefix |-> "openai/"],
    anthropic  |-> [name |-> "Anthropic", base_url |-> None,
                    api_key_env |-> "ANTHROPIC_API_KEY", model_prefix |-> "anthropic/"],
    google     |-> [name |-> "Google AI", base_url |-> None,
                    api_key_env |-> "GOOGLE_API_KEY", model_prefix |-> "google/"],
    together   |-> [name |-> "Together AI", base_url |-> Some("https://api.together.xyz/v1"),
                    api_key_env |-> "TOGETHER_API_KEY", model_prefix |-> "openai/"],
    fireworks  |-> [name |-> "Fireworks AI", base_url |-> Some("https://api.fireworks.ai/inference/v1"),
                    api_key_env |-> "FIREWORKS_API_KEY", model_prefix |-> "openai/"] ]

\* The benchmarks of the table that the model's requests name.
SUPPORTED_BENCHMARKS ==
  [ mmlu      |-> "inspect_evals/mmlu_0_shot",
    swe_bench |-> "inspect_evals/swe_bench",
    gaia      |-> "inspect_evals/gaia" ]

\* ---------------------------------------------------------------------------
\* is_reasoning_model
\* ---------------------------------------------------------------------------
reasoning_patterns ==
    { <<"o", "1">>,
      <<"o", "3">>,
      <<"g", "p", "t", "-", "5">>,
      <<"c", "l", "a", "u", "d", "e", "-", "3", "-", "7">>,
      <<"c", "l", "a", "u", "d", "e", "-", "3", ".", "7">>,
      <<"c", "l", "a", "u", "d", "e", "-", "4">>,
      <<"d", "e", "e", "p", "s", "e", "e", "k", "-", "r", "1">>,
      <<"d", "e", "e", "p", "s", "e", "e", "k", "/", "r", "1">>,
      <<"g", "e", "m", "i", "n", "i", "-", "2", ".", "5">>,
      <<"g", "e", "m", "i", "n", "i", "-", "3">>,
      <<"d", "e", "e", "p", "-", "t", "h", "i", "n", "k">>,
      <<"d", "e", "e", "p", "t", "h", "i", "n", "k">>,
      <<"p", "h", "i", "-", "4", "-", "r", "e", "a", "s", "o", "n", "i", "n", "g">>,
      <<"p", "h", "i", "-", "r", "e", "a", "s", "o", "n", "i", "n", "g">>,
      <<"-", "r", "e", "a", "s", "o", "n", "i", "n", "g">>,
      <<"-", "t", "h", "i", "n", "k", "i", "n", "g">>,
      <<"_", "r", "e", "a", "s", "o", "n", "i", "n", "g">>,
      <<"_", "t", "h", "i", "n", "k", "i", "n", "g">> }

is_reasoning_model(model_id) ==
    \E pattern \in reasoning_patterns : Contains(Lower(model_id), pattern)

openai_reasoning_patterns == { <<"o", "1">>, <<"o", "3">>, <<"g", "p", "t", "-", "5">> }

is_openai_reasoning(model_id) ==
    \E p \in openai_reasoning_patterns : Contains(Lower(model_id), p)

\* ---------------------------------------------------------------------------
\* build_inspect_command
\* ---------------------------------------------------------------------------
\* Truthiness of an Optional[str]
Truthy(x) == x # None /\ x[1] # ""

base_cmd(task_name, model_id, limit, provider, provider_config) ==
    IF provider = "anthropic"
    THEN << L("inspect"), L("eval"), L(task_name),
            L("--model"), L("anthropic/") \o model_id,
            L("--limit"), IntStr(limit),
            L("--log-format"), L("json") >>
    ELSE IF provider = "google"
    THEN << L("inspect"), L("eval"), L(task_name),
            L("--model"), L("google/") \o model_id,
            L("--limit"), IntStr(limit),
            L("--log-format"), L("json") >>
    ELSE << L("inspect"), L("eval"), L(task_name),
            L("--model"), L(provider_config.model_prefix) \o model_id,
            L("--limit"), IntStr(limit),
            L("--log-format"), L("json") >>
         \o (IF provider_config.base_url # None /\ provider # "openai"
             THEN << L("--model-base-url"), L(provider_config.base_url[1]) >>
             ELSE << >>)

reasoning_flags_always_medium(model_id, provider, reasoning_effort) ==
    << L("--reasoning-effort"),
       L(IF Truthy(reasoning_effort) THEN reasoning_effort[1] ELSE "medium") >>

reasoning_flags(model_id, provider, reasoning_effort) ==
    IF provider = "openrouter" /\ is_openai_reasoning(model_id)
    THEN << L("--reasoning-effort"),
            L(IF reasoning_effort # None THEN reasoning_effort[1] ELSE "none") >>
    ELSE IF provider = "openrouter"
    THEN (IF Truthy(reasoning_effort)
          THEN << L("--reasoning-effort"), L(reasoning_effort[1]) >> ELSE << >>)
    ELSE IF provider = "openai"
    THEN << L("--reasoning-effort"),
            L(IF Truthy(reasoning_effort) THEN reasoning_effort[1] ELSE "medium"),
            L("--reasoning-summary"), L("auto") >>
    ELSE IF provider = "anthropic" THEN << >>
    ELSE IF provider = "google" THEN << >>
    ELSE (IF Truthy(reasoning_effort)
          THEN << L("--reasoning-effort"), L(reasoning_effort[1]) >> ELSE << >>)

temperature_flags_if_truthy(temperature) ==
    IF temperature # None /\ temperature[1] # 0
    THEN << L("--temperature"), FloatStr(temperature[1]) >>
    ELSE << >>

temperature_flags(temperature) ==
    IF temperature # None
    THEN << L("--temperature"), FloatStr(temperature[1]) >>
    ELSE << >>

seed_flags_if_truthy(seed) ==
    IF seed # None /\ seed[1] # 0
    THEN << L("--seed"), IntStr(seed[1]), L("--sample-shuffle"), IntStr(seed[1]) >>
    ELSE << L("--sample-shuffle") >>

seed_flags(seed) ==
    IF seed # None
    THEN << L("--seed"), IntStr(seed[1]), L("--sample-shuffle"), IntStr(seed[1]) >>
    ELSE << L("--sample-shuffle") >>

DefaultMaxTokens == 1024

max_tokens_flags(max_tokens) ==
    LET effective_max_tokens == IF max_tokens # None THEN max_tokens[1] ELSE DefaultMaxTokens
    IN << L("--max-tokens"), IntStr(effective_max_tokens),
          L("-T"), L("max_non_cot_tokens=") \o IntStr(effective_max_tokens) >>

build_inspect_command(task_name, model_id, limit, provider, provider_config, temperature, seed, max_tokens, reasoning_effort) ==
    base_cmd(task_name, model_id, limit, provider, provider_config)
    \o (IF is_reasoning_model(model_id)
        THEN reasoning_flags(model_id, provider, reasoning_effort)
        ELSE temperature_flags(temperature))
    \o seed_flags(seed)
    \o max_tokens_flags(max_tokens)

\* ---------------------------------------------------------------------------
\* Inputs
\* ---------------------------------------------------------------------------
ModelIds ==
    { <<"o", "3", "-", "m", "i", "n", "i">>,
      <<"g", "p", "t", "-", "4", "o">>,
      <<"G", "P", "T", "-", "5">>,
      <<"c", "l", "a", "u", "d", "e", "-", "3", "-", "7", "-", "s", "o", "n", "n", "e", "t">>,
      <<"c", "l", "a", "u", "d", "e", "-", "3", "-", "5", "-", "s", "o", "n", "n", "e", "t">>,
      <<"d", "e", "e", "p", "s", "e", "e", "k", "-", "r", "1">>,
      <<"l", "l", "a", "m", "a", "-", "3", ".", "1", "-", "8", "b">> }

\* temperatures in tenths: 0.0, 0.7, 2.0
Temperatures == { None, Some(0), Some(7), Some(20) }

Seeds == { None, Some(0), Some(42) }

MaxTokensValues == { None, Some(5), Some(2048) }

ReasoningEfforts == { None, Some(""), Some("high") }

\* ---------------------------------------------------------------------------
\* Per-sample correctness extraction (helpers nested in run_with_inspect_ai)
\* ---------------------------------------------------------------------------
valid_answers == { "A", "B", "C", "D", "E" }

AnswerKeywords == { <<"A", "N", "S", "W", "E", "R">>,
                    <<"A", "n", "s", "w", "e", "r">>,
                    <<"a", "n", "s", "w", "e", "r">> }

AnswerLetters == { "A", "B", "C", "D", "E", "a", "b", "c", "d", "e" }

\* the characters matched by [:\s]
SepChars == { ":", " ", "\n", "\t" }

\* the characters matched by \w
WordChars == { UpperCase[i] : i \in 1..26 } \cup { LowerCase[i] : i \in 1..26 }
             \cup { Digits[i] : i \in 1..10 } \cup { "_" }

\* first index >= q of text whose character is not matched by [:\s]
RECURSIVE SkipSeps(_, _)
SkipSeps(text, q) == IF q <= Len(text) /\ text[q] \in SepChars
                     THEN SkipSeps(text, q + 1) ELSE q

\* index q of the captured letter when ([A-Ea-e])\b matches at q, else 0
CaptureAt(text, q) ==
    IF /\ q <= Len(text)
       /\ text[q] \in AnswerLetters
       /\ (q = Len(text) \/ text[q + 1] \notin WordChars)
    THEN q ELSE 0

\* index of the captured letter when the pattern
\* (?:ANSWER|Answer|answer)[:\s]*([A-Ea-e])\b matches at position p, else 0
AnswerMatchAt(text, p) ==
    IF p + 5 <= Len(text) /\ SubSeq(text, p, p + 5) \in AnswerKeywords
    THEN CaptureAt(text, SkipSeps(text, p + 6))
    ELSE 0

\* the leftmost match from position p on: None, or the captured group
RECURSIVE AnswerSearchFrom(_, _)
AnswerSearchFrom(text, p) ==
    IF p > Len(text) THEN None
    ELSE IF AnswerMatchAt(text, p) # 0 THEN Some(text[AnswerMatchAt(text, p)])
    ELSE AnswerSearchFrom(text, p + 1)

\* re.search of the pattern: None, or the captured group of the leftmost match
AnswerSearch(text) == AnswerSearchFrom(text, 1)

\* result of a helper: a returned value or a raised exception
Return(v) == [exc |-> FALSE, ret |-> v]

Raise == [exc |-> TRUE, ret |-> <<>>]

\* str.strip()
RECURSIVE LStrip(_)
LStrip(s) == IF s # <<>> /\ Head(s) \in { " ", "\n", "\t" } THEN LStrip(Tail(s)) ELSE s

RECURSIVE RStrip(_)
RStrip(s) == IF s # <<>> /\ s[Len(s)] \in { " ", "\n", "\t" }
             THEN RStrip(SubSeq(s, 1, Len(s) - 1)) ELSE s

Strip(s) == RStrip(LStrip(s))

\* the first of two optional values that is present
OrElse(a, b) == IF a # None THEN a ELSE b

\* The first return of the loop over the content blocks (from block i on):
\* a text block is searched in its text, a reasoning block in its summary,
\* and the first block with a match returns.
RECURSIVE blocks_search(_, _)
blocks_search(blocks, i) ==
    IF i > Len(blocks) THEN None
    ELSE OrElse(IF blocks[i].type \in { "text", "reasoning" }
                THEN AnswerSearch(blocks[i].body) ELSE None,
                blocks_search(blocks, i + 1))

\* the part of extract_predicted that reads output.choices[0].message.content
content_search(content) ==
    IF content.kind = "list" THEN blocks_search(content.blocks, 1)
    ELSE IF content.kind = "str" THEN AnswerSearch(content.text)
    ELSE None

\* "if value and value.upper() in valid_answers: return value.upper()"
verdict_letter(value) ==
    IF value.kind = "num"
    THEN (IF value.v # <<"0">> THEN Raise ELSE Return(<<>>))
    ELSE IF value.v # <<>> /\ Len(value.v) = 1 /\ Upper(value.v)[1] \in valid_answers
    THEN Return(Upper(value.v))
    ELSE Return(<<>>)

\* the returns of extract_predicted: m is the first match found in the message
\* content, the completion and the scorer explanation (a matched letter as a
\* one-character string), else the scorer's verdict letter is consulted
predicted_from(m, s) ==
    IF m # None THEN Return(Upper(m))
    ELSE IF s.has_choice THEN verdict_letter(s.value)
    ELSE Return(<<>>)

extract_predicted(s) ==
    predicted_from(OrElse(content_search(s.content),
                          OrElse(AnswerSearch(s.completion),
                                 IF s.has_choice THEN AnswerSearch(s.explanation) ELSE None)),
                   s)

extract_expected(s) ==
    IF s.target # <<>> THEN Strip(s.target)
    ELSE IF s.has_choice THEN s.answer
    ELSE <<>>

\* "predicted.upper() == expected.upper() if predicted and expected else False"
compare_answers(predicted, expected) ==
    IF predicted.exc THEN Raise
    ELSE Return(IF predicted.ret # <<>> /\ expected # <<>>
                THEN Upper(predicted.ret) = Upper(expected)
                ELSE FALSE)

is_sample_correct(s) ==
    IF s.has_choice
    THEN compare_answers(extract_predicted(s), extract_expected(s))
    ELSE Return(s.score_value = Some(1))

\* ---------------------------------------------------------------------------
\* Samples of a parsed log
\* ---------------------------------------------------------------------------
TextAnswerB == <<"A", "n", "s", "w", "e", "r", ":", " ", "B">>

TextAnswerA == <<"A", "n", "s", "w", "e", "r", ":", " ", "A">>

TextAnswerBe == <<"A", "n", "s", "w", "e", "r", ":", " ", "B", "e">>

TextAnswerAThenB == <<"A", "n", "s", "w", "e", "r", ":", " ", "A", ".", " ", "A", "n", "s", "w", "e", "r", ":", " ", "B">>

TextNoAnswer == <<"B", " ", "i", "s", " ", "r", "i", "g", "h", "t">>

NoContent == [kind |-> "none", text |-> <<>>, blocks |-> <<>>]

StrContent(t) == [kind |-> "str", text |-> t, blocks |-> <<>>]

ListContent(bs) == [kind |-> "list", text |-> <<>>, blocks |-> bs]

StrValue(v) == [kind |-> "str", v |-> v]

NumValue(v) == [kind |-> "num", v |-> v]

Blocks == [type : { "text", "reasoning" },
           body : { <<>>, TextAnswerB, TextAnswerA, TextNoAnswer }]

BlockLists == UNION { [1..n -> Blocks] : n \in 0..MaxBlocks }

Contents == { NoContent }
            \cup { StrContent(t) : t \in { TextAnswerB, TextAnswerBe, TextAnswerAThenB, TextNoAnswer } }
            \cup { ListContent(bs) : bs \in BlockLists }

ScorerValues == { StrValue(<<>>), StrValue(<<"C">>), StrValue(<<"I">>), StrValue(<<"b">>),
                  NumValue(<<"1">>), NumValue(<<"0">>) }

\* a sample of the log: output.choices[0].message.content, output.completion,
\* scores["choice"] (explanation, value, answer), target and the old-format score.value
SampleInputsOf(c) ==
    { [content |-> c, completion |-> k, has_choice |-> TRUE, explanation |-> x,
       value |-> v, answer |-> <<"B">>, target |-> t, score_value |-> o] :
        k \in { <<>>, TextAnswerA, TextAnswerB },
        x \in { <<>>, TextAnswerA }, v \in ScorerValues,
        t \in { <<>>, <<"B">>, <<" ", "b", "\n">>, <<"A">> }, o \in { None, Some(1) } }
    \cup
    { [content |-> c, completion |-> k, has_choice |-> FALSE, explanation |-> <<>>,
       value |-> StrValue(<<>>), answer |-> <<>>, target |-> t, score_value |-> o] :
        k \in { <<>>, TextAnswerA, TextAnswerB },
        t \in { <<>>, <<"B">>, <<" ", "b", "\n">>, <<"A">> }, o \in { None, Some(1) } }

\* ---------------------------------------------------------------------------
\* Scores: a Python float that is the quotient of two ints is kept as the
\* fraction n/d (d > 0)
\* ---------------------------------------------------------------------------
Frac(n, d) == [n |-> n, d |-> d]

FracEq(a, b) == a.n * b.d = b.n * a.d

FracLeq(a, b) == a.n * b.d <= b.n * a.d

RECURSIVE Gcd(_, _)
Gcd(a, b) == IF b = 0 THEN a ELSE Gcd(b, a % b)

\* a fraction with a non-negative numerator, in lowest terms
FracNorm(a) == Frac(a.n \div Gcd(a.n, a.d), a.d \div Gcd(a.n, a.d))

FracAdd(a, b) == FracNorm(Frac(a.n * b.d + b.n * a.d, a.d * b.d))

FracSub(a, b) == FracNorm(Frac(a.n * b.d - b.n * a.d, a.d * b.d))

RECURSIVE FracSum(_)
FracSum(fs) == IF fs = <<>> THEN Frac(0, 1) ELSE FracAdd(Head(fs), FracSum(Tail(fs)))

FracMin(fs) == LET i == CHOOSE i \in 1..Len(fs) : \A j \in 1..Len(fs) : FracLeq(fs[i], fs[j])
               IN fs[i]

FracMax(fs) == LET i == CHOOSE i \in 1..Len(fs) : \A j \in 1..Len(fs) : FracLeq(fs[j], fs[i])
               IN fs[i]

\* a fraction divided by a positive integer
FracDivInt(a, k) == Frac(a.n, a.d * k)

avg_score_of_last_epoch(scores) == scores[Len(scores)]

\* "avg_score = sum(scores) / len(scores)"
avg_score(scores) == FracDivInt(FracSum(scores), Len(scores))

RECURSIVE SumSeq(_)
SumSeq(ns) == IF ns = <<>> THEN 0 ELSE Head(ns) + SumSeq(Tail(ns))

Max(a, b) == IF a >= b THEN a ELSE b

\* ---------------------------------------------------------------------------
\* Events
\* ---------------------------------------------------------------------------
create_error_typed_progress(code, details) ==
    [type |-> "progress", data |-> [code |-> code, details |-> details]]

create_error(code, details) ==
    [type |-> "error", data |-> [code |-> code, details |-> details]]

create_progress(message, extra) ==
    [type |-> "progress", data |-> [message |-> message, extra |-> extra]]

create_result(question, total, correct, running_score, latency_ms, predicted, expected, epoch) ==
    [type |-> "result",
     data |-> [question |-> question, questionIndex |-> question - 1, total |-> total,
               correct |-> correct, running_score |-> running_score,
               latency_ms |-> latency_ms, predicted |-> predicted,
               expected |-> expected, epoch |-> epoch]]

create_complete(score, correct, total, extra) ==
    [type |-> "complete",
     data |-> [score |-> score, correct |-> correct, total |-> total, extra |-> extra]]

NoDetails == [none |-> TRUE]

\* ---------------------------------------------------------------------------
\* validate_parameters
\* ---------------------------------------------------------------------------
ModelIdChars == { UpperCase[i] : i \in 1..26 } \cup { LowerCase[i] : i \in 1..26 }
                \cup { Digits[i] : i \in 1..10 } \cup { ".", "_", ":", "/", "-" }

\* ^[a-zA-Z0-9._:/-]+$ with re.match: $ also matches before one trailing newline
model_id_pattern_match(model_id) ==
    LET body == IF model_id # <<>> /\ model_id[Len(model_id)] = "\n"
                THEN SubSeq(model_id, 1, Len(model_id) - 1) ELSE model_id
    IN body # <<>> /\ \A i \in 1..Len(body) : body[i] \in ModelIdChars

MaxModelIdLen == 200

MaxLimit == 10000

MaxTemperatureTenths == 20

MaxEpochCount == 100

\* str.lower() of the provider names the requests use
ProviderLower(provider) ==
    CASE provider = "OpenAI" -> "openai"
      [] provider = "OpenRouter" -> "openrouter"
      [] OTHER -> provider

validate_parameters_limit_from_zero(model_id, benchmark, limit, provider, temperature, seed, epochs) ==
    IF model_id = <<>> \/ Strip(model_id) = <<>>
    THEN Some(create_error("INVALID_PARAMETER", [parameter |-> "model_id"]))
    ELSE IF ~model_id_pattern_match(model_id) \/ Len(model_id) > MaxModelIdLen
    THEN Some(create_error("INVALID_PARAMETER", [parameter |-> "model_id"]))
    ELSE IF limit < 0
    THEN Some(create_error("INVALID_PARAMETER", [parameter |-> "limit"]))
    ELSE IF limit > MaxLimit
    THEN Some(create_error("INVALID_PARAMETER", [parameter |-> "limit"]))
    ELSE IF temperature # None /\ (temperature[1] < 0 \/ temperature[1] > MaxTemperatureTenths)
    THEN Some(create_error("INVALID_PARAMETER", [parameter |-> "temperature"]))
    ELSE IF seed # None /\ seed[1] < 0
    THEN Some(create_error("INVALID_PARAMETER", [parameter |-> "seed"]))
    ELSE IF epochs # None /\ (epochs[1] < 1 \/ epochs[1] > MaxEpochCount)
    THEN Some(create_error("INVALID_PARAMETER", [parameter |-> "epochs"]))
    ELSE IF ProviderLower(provider) \notin DOMAIN PROVIDERS
    THEN Some(create_error("PROVIDER_NOT_FOUND", [parameter |-> "provider"]))
    ELSE IF benchmark \notin DOMAIN SUPPORTED_BENCHMARKS
    THEN Some(create_error("BENCHMARK_NOT_FOUND", [parameter |-> "benchmark"]))
    ELSE None

\* None when all parameters are valid, else Some(error event)
validate_parameters(model_id, benchmark, limit, provider, temperature, seed, epochs) ==
    IF model_id = <<>> \/ Strip(model_id) = <<>>
    THEN Some(create_error("INVALID_PARAMETER", [parameter |-> "model_id"]))
    ELSE IF ~model_id_pattern_match(model_id) \/ Len(model_id) > MaxModelIdLen
    THEN Some(create_error("INVALID_PARAMETER", [parameter |-> "model_id"]))
    ELSE IF limit < 1
    THEN Some(create_error("INVALID_PARAMETER", [parameter |-> "limit"]))
    ELSE IF limit > MaxLimit
    THEN Some(create_error("INVALID_PARAMETER", [parameter |-> "limit"]))
    ELSE IF temperature # None /\ (temperature[1] < 0 \/ temperature[1] > MaxTemperatureTenths)
    THEN Some(create_error("INVALID_PARAMETER", [parameter |-> "temperature"]))
    ELSE IF seed # None /\ seed[1] < 0
    THEN Some(create_error("INVALID_PARAMETER", [parameter |-> "seed"]))
    ELSE IF epochs # None /\ (epochs[1] < 1 \/ epochs[1] > MaxEpochCount)
    THEN Some(create_error("INVALID_PARAMETER", [parameter |-> "epochs"]))
    ELSE IF ProviderLower(provider) \notin DOMAIN PROVIDERS
    THEN Some(create_error("PROVIDER_NOT_FOUND", [parameter |-> "provider"]))
    ELSE IF benchmark \notin DOMAIN SUPPORTED_BENCHMARKS
    THEN Some(create_error("BENCHMARK_NOT_FOUND", [parameter |-> "benchmark"]))
    ELSE None

\* ---------------------------------------------------------------------------
\* run_with_inspect_ai: state of one run
\* ---------------------------------------------------------------------------
VARIABLES
    req,                \* the arguments of the run
    env,                \* what the process environment provides
    pc,                 \* position of the generator: entry, epoch_head, running, done
    events,             \* the events yielded so far, in order
    epoch,              \* loop variable of "for epoch in range(epochs)"
    all_epoch_results,  \* list of per-epoch results
    cmds,               \* the command of every subprocess.run call so far
    eval_timeout,       \* deadline given to subprocess.run
    procs,              \* the subprocess.run calls so far: deadline passed and outcome
    build_req,          \* arguments of a direct build_inspect_command call
    build_cmd,          \* its return value, None before the call
    sample,             \* a sample of a parsed log
    scored,             \* what the extraction helpers return for it, None before
    log_call,           \* a log path handed to parse_log_results or a stdout line of the runner
    fs_access,          \* the file accesses made so far: operation and path, in order
    log_ret,            \* outcome of the log lookup, None before
    rate_cfg,           \* RATE_LIMIT_REQUESTS and RATE_LIMIT_WINDOW of the service
    rate_limit_store,   \* per client address, the times of its admitted requests
    now,                \* time.time(), in half seconds
    served,             \* the requests answered by the middleware so far, in order
    retry_call,         \* a retry command: the saved run it finds and the --yes flag
    retry_pc,           \* position of cmd_retry: start, confirm, run, done
    saved_file,         \* the saved run on disk
    executed,           \* the requests posted for the models of the retry, in order
    svc_runs,           \* the concurrent runs of the service: position, epoch, delivered events
    loop_thread,        \* the run whose code occupies the event-loop thread, 0 when it is free
    val_call,           \* arguments of a direct validate_parameters call
    val_ret,            \* its return value, None before the call
    sync_call,          \* a POST /run request and what the runner yields for it
    sync_response,      \* the response of run_evaluation_sync, None before
    cli_args,           \* the arguments of a "bench run" command
    cli_pc,             \* position of cmd_run: start, confirm, gather, done
    cli_epoch,          \* loop variable of "for epoch in range(epochs)" of cmd_run
    cli_tasks,          \* the run_single_benchmark coroutines of the current gather
    cli_requests,       \* the JSON bodies posted to /run/stream so far, in order
    cli_results         \* all_epoch_results of cmd_run

runVars == << req, env, pc, events, epoch, all_epoch_results, cmds, eval_timeout, procs >>

buildVars == << build_req, build_cmd >>

sampleVars == << sample, scored >>

logVars == << log_call, fs_access, log_ret >>

\* the variables of the specifications of the other operations
rateVars == << rate_cfg, rate_limit_store, now, served >>

retryVars == << retry_call, retry_pc, saved_file, executed >>

svcVars == << svc_runs, loop_thread >>

validateVars == << val_call, val_ret >>

syncVars == << sync_call, sync_response >>

cliVars == << cli_args, cli_pc, cli_epoch, cli_tasks, cli_requests, cli_results >>

extVars == << validateVars, syncVars, cliVars >>

auxVars == << logVars, rateVars, retryVars, svcVars, extVars >>

baseVars == << runVars, buildVars, sampleVars, logVars, rateVars, retryVars, svcVars >>

vars == << req, env, pc, events, epoch, all_epoch_results, cmds, eval_timeout, procs,
           build_req, build_cmd, sample, scored, auxVars >>

BENCHMARK_DEPENDENCIES ==
  [ swe_bench |-> [package |-> "swebench", install_cmd |-> Some("pip install inspect-evals[swe_bench]")],
    gaia      |-> [package |-> "playwright", install_cmd |-> Some("pip install inspect-evals[gaia] && playwright install")] ]

get_benchmark_dependency_info(benchmark) ==
    IF benchmark \in DOMAIN BENCHMARK_DEPENDENCIES
    THEN Some(BENCHMARK_DEPENDENCIES[benchmark]) ELSE None

docker_benchmarks == { "swe_bench", "swe_bench_verified", "cybench", "gdm_intercode_ctf",
                       "gdm_in_house_ctf", "osworld", "osworld_small" }

DefaultEvalTimeout == 600

DockerTimeoutFloor == 1800

DockerTimeoutPerSample == 300

ReasoningTimeoutPerSample == 60

StderrPreviewLen == 1000

\* timeout or int(os.getenv("EVAL_TIMEOUT", "600"))
base_timeout(timeout, environ) ==
    IF timeout # None /\ timeout[1] # 0 THEN timeout[1]
    ELSE IF environ.EVAL_TIMEOUT # None THEN environ.EVAL_TIMEOUT[1]
    ELSE DefaultEvalTimeout

compute_eval_timeout(benchmark, model_id, limit, base) ==
    IF benchmark \in docker_benchmarks
    THEN Max(DockerTimeoutFloor, DockerTimeoutFloor + limit * DockerTimeoutPerSample)
    ELSE IF is_reasoning_model(model_id)
    THEN Max(base, limit * ReasoningTimeoutPerSample)
    ELSE base

\* the build_inspect_command call of one epoch
epoch_command_reseeded(r, ep) ==
    LET provider == ProviderLower(r.provider)
    IN build_inspect_command(SUPPORTED_BENCHMARKS[r.benchmark], r.model_id, r.limit,
                             provider, PROVIDERS[provider], r.temperature,
                             IF r.seed # None THEN Some(r.seed[1] + ep) ELSE None,
                             r.max_tokens, None)

epoch_command(r, ep) ==
    LET provider == ProviderLower(r.provider)
    IN build_inspect_command(SUPPORTED_BENCHMARKS[r.benchmark], r.model_id, r.limit,
                             provider, PROVIDERS[provider], r.temperature, r.seed,
                             r.max_tokens, None)

\* latency of a sample: model_usage, else the timestamps, else 0
sample_latency(s) ==
    CASE s.timing = "usage"   -> Return(120)
      [] s.timing = "stamps"  -> Return(250)
      [] s.timing = "bad_str" -> Return(0)
      [] s.timing = "not_str" -> Raise
      [] OTHER                -> Return(0)

IsCorrect(s) == is_sample_correct(s) = Return(TRUE)

\* sum(1 for s in samples if is_sample_correct(s))
count_correct(samples) == Cardinality({ j \in 1..Len(samples) : IsCorrect(samples[j]) })

running_correct_before(samples, i) ==
    Cardinality({ j \in 1..(i - 1) : IsCorrect(samples[j]) })

\* sum(1 for s in samples[:i+1] if is_sample_correct(s)), i counted from 1
running_correct(samples, i) ==
    Cardinality({ j \in 1..i : IsCorrect(samples[j]) })

emit_sample_results_every_epoch(ep) == TRUE

\* "if epoch == 0": per-sample results are yielded for the first epoch only
emit_sample_results(ep) == ep = 0

\* the result event of sample i, or the exception raised on the way
result_or_raise(samples, i, ep, predicted, latency) ==
    IF predicted.exc \/ latency.exc THEN Raise
    ELSE Return(create_result(i, Len(samples), IsCorrect(samples[i]),
                              Frac(running_correct(samples, i), i),
                              latency.ret, predicted.ret, extract_expected(samples[i]), ep + 1))

\* the body of the per-sample loop for sample i
sample_result(samples, i, ep) ==
    result_or_raise(samples, i, ep, extract_predicted(samples[i]), sample_latency(samples[i]))

epoch_result_numbered_one(ep, correct, total) ==
    [epoch |-> 1, score |-> IF total > 0 THEN Frac(correct, total) ELSE Frac(0, 1),
     correct |-> correct, total |-> total]

\* epoch_result of a parsed log
epoch_result_of(ep, correct, total) ==
    [epoch |-> ep + 1, score |-> IF total > 0 THEN Frac(correct, total) ELSE Frac(0, 1),
     correct |-> correct, total |-> total]

\* epoch_result of the text-scrape fallback: score is the scraped figure,
\* divided by 100 when above 1
scraped_epoch_result(ep, h, limit) ==
    [epoch |-> ep + 1, score |-> FracNorm(IF h > 100 THEN Frac(h, 10000) ELSE Frac(h, 100)),
     correct |-> IF h > 100 THEN (h * limit) \div 10000 ELSE (h * limit) \div 100,
     total |-> limit]

TextBlock(t) == [type |-> "text", body |-> t]

SampleRight ==
    [content |-> ListContent(<< TextBlock(TextAnswerB) >>), completion |-> <<>>,
     has_choice |-> TRUE, explanation |-> <<>>, value |-> StrValue(<<"I">>),
     answer |-> <<"B">>, target |-> <<"B">>, score_value |-> None, timing |-> "usage"]

SampleWrong ==
    [content |-> ListContent(<< TextBlock(TextAnswerA) >>), completion |-> <<>>,
     has_choice |-> TRUE, explanation |-> <<>>, value |-> StrValue(<<"C">>),
     answer |-> <<"B">>, target |-> <<"B">>, score_value |-> None, timing |-> "none"]

\* a scorer value that is a number: extract_predicted raises on it
SampleNumericValue ==
    [content |-> NoContent, completion |-> <<>>,
     has_choice |-> TRUE, explanation |-> <<>>, value |-> NumValue(<<"1">>),
     answer |-> <<"B">>, target |-> <<"B">>, score_value |-> None, timing |-> "none"]

\* timestamps that are not strings: the latency computation raises on them
SampleBadStamps ==
    [content |-> StrContent(TextAnswerB), completion |-> <<>>,
     has_choice |-> TRUE, explanation |-> <<>>, value |-> StrValue(<<>>),
     answer |-> <<"B">>, target |-> <<"B">>, score_value |-> None, timing |-> "not_str"]

RunSamples == { SampleRight, SampleWrong, SampleNumericValue, SampleBadStamps }

SampleLists == UNION { [1..n -> RunSamples] : n \in 0..MaxSamples }

\* "accuracy: <figure>" scraped from stdout, in hundredths; ok = FALSE when
\* float() rejects the matched text
ScrapedFigures == { [ok |-> TRUE, h |-> 0], [ok |-> TRUE, h |-> 85],
                    [ok |-> TRUE, h |-> 100], [ok |-> TRUE, h |-> 8500],
                    [ok |-> FALSE, h |-> 0] }

RunModelIds == { <<"g", "p", "t", "-", "4", "o">>,
                 <<"o", "3", "-", "m", "i", "n", "i">>,
                 <<>> }

RunRequests ==
    [ model_id : RunModelIds,
      benchmark : { "mmlu", "swe_bench", "nope" },
      limit : { 0, 2 },
      provider : { "openrouter", "OpenAI", "bogus" },
      temperature : { Some(0) },
      seed : { None, Some(42) },
      max_tokens : { None },
      epochs : 0..MaxEpochs,
      api_key : { None },
      timeout : { None } ]
    \cup
    [ model_id : { <<"g", "p", "t", "-", "4", "o">> },
      benchmark : { "mmlu", "swe_bench" },
      limit : { 0, 2 },
      provider : { "openrouter" },
      temperature : { Some(0) },
      seed : { None },
      max_tokens : { None },
      epochs : { 1 },
      api_key : { None },
      timeout : { Some(30), Some(7200) } ]

AllKeys == { PROVIDERS[p].api_key_env : p \in DOMAIN PROVIDERS }

Environments ==
    { [inspect_ai |-> TRUE, inspect_evals |-> TRUE, keys |-> AllKeys, EVAL_TIMEOUT |-> None],
      [inspect_ai |-> FALSE, inspect_evals |-> TRUE, keys |-> AllKeys, EVAL_TIMEOUT |-> None],
      [inspect_ai |-> TRUE, inspect_evals |-> FALSE, keys |-> AllKeys, EVAL_TIMEOUT |-> None],
      [inspect_ai |-> TRUE, inspect_evals |-> TRUE, keys |-> {}, EVAL_TIMEOUT |-> None] }

\* values of the variables a specification does not use
BuildIdle == build_req = None /\ build_cmd = None

SampleIdle == sample = None /\ scored = None

LogIdle == log_call = None /\ fs_access = <<>> /\ log_ret = None

RateIdle == rate_cfg = None /\ rate_limit_store = <<>> /\ now = 0 /\ served = <<>>

RetryIdle == retry_call = None /\ retry_pc = "idle" /\ saved_file = None /\ executed = <<>>

SvcIdle == svc_runs = <<>> /\ loop_thread = 0

ValidateIdle == val_call = None /\ val_ret = None

SyncIdle == sync_call = None /\ sync_response = None

CliIdle == /\ cli_args = None /\ cli_pc = "idle" /\ cli_epoch = 0 /\ cli_tasks = <<>>
           /\ cli_requests = <<>> /\ cli_results = <<>>

ExtIdle == ValidateIdle /\ SyncIdle /\ CliIdle

AuxIdle == LogIdle /\ RateIdle /\ RetryIdle /\ SvcIdle /\ ExtIdle

RunIdle == /\ req = None /\ env = None /\ pc = "idle" /\ events = <<>> /\ epoch = 0
           /\ all_epoch_results = <<>> /\ cmds = <<>> /\ eval_timeout = 0 /\ procs = <<>>

\* ---------------------------------------------------------------------------
\* run_with_inspect_ai: the steps of one run
\* ---------------------------------------------------------------------------
Init ==
    /\ req \in RunRequests
    /\ env \in Environments
    /\ pc = "entry"
    /\ events = <<>>
    /\ epoch = 0
    /\ all_epoch_results = <<>>
    /\ cmds = <<>>
    /\ eval_timeout = 0
    /\ procs = <<>>
    /\ BuildIdle
    /\ SampleIdle
    /\ AuxIdle

\* yield the events and return
YieldAndReturn(evs) ==
    /\ events' = events \o evs
    /\ pc' = "done"
    /\ UNCHANGED << req, env, epoch, all_epoch_results, cmds, eval_timeout >>

\* from the entry to the first yield: availability checks, validation, API key,
\* deadline, dispatch progress event
Start ==
    /\ pc = "entry"
    /\ UNCHANGED << procs, buildVars, sampleVars, auxVars >>
    /\ LET provider == ProviderLower(req.provider)
           validation_error == validate_parameters(req.model_id, req.benchmark, req.limit,
                                   provider, req.temperature, req.seed, Some(req.epochs))
       IN IF ~env.inspect_ai
          THEN YieldAndReturn(<< create_error("INSPECT_NOT_INSTALLED", NoDetails) >>)
          ELSE IF ~env.inspect_evals
          THEN YieldAndReturn(<< create_error("EVALS_NOT_INSTALLED", NoDetails) >>)
          ELSE IF validation_error # None
          THEN YieldAndReturn(<< validation_error[1] >>)
          ELSE IF ~(Truthy(req.api_key) \/ PROVIDERS[provider].api_key_env \in env.keys)
          THEN YieldAndReturn(<< create_error("API_KEY_MISSING",
                                   [provider |-> provider,
                                    env_var |-> PROVIDERS[provider].api_key_env]) >>)
          ELSE /\ eval_timeout' = compute_eval_timeout(req.benchmark, req.model_id, req.limit,
                                                       base_timeout(req.timeout, env))
               /\ events' = events \o << create_progress("dispatch",
                                [provider |-> provider, seed |-> req.seed,
                                 epochs |-> req.epochs]) >>
               /\ pc' = "epoch_head"
               /\ UNCHANGED << req, env, epoch, all_epoch_results, cmds >>

\* top of the loop body up to subprocess.run: per-epoch progress, command, spawn
EpochBegin ==
    /\ pc = "epoch_head"
    /\ epoch < req.epochs
    /\ procs' = Append(procs, [timeout |-> eval_timeout, outcome |-> "running"])
    /\ UNCHANGED << buildVars, sampleVars, auxVars >>
    /\ LET cmd == epoch_command(req, epoch)
       IN /\ events' = events
                 \o (IF req.epochs > 1
                     THEN << create_progress("epoch_start", [epoch |-> epoch + 1]) >>
                     ELSE << >>)
                 \o << create_progress("executing", [cmd |-> SubSeq(cmd, 1, 5)]) >>
          /\ cmds' = Append(cmds, cmd)
    /\ pc' = "running"
    /\ UNCHANGED << req, env, epoch, all_epoch_results, eval_timeout >>

\* the end of a loop iteration that produced epoch_result: append it, yield the
\* per-epoch progress event when epochs > 1, go to the next epoch
EndEpoch(evs, epoch_result) ==
    /\ all_epoch_results' = Append(all_epoch_results, epoch_result)
    /\ events' = events \o evs
                 \o (IF req.epochs > 1
                     THEN << create_progress("epoch_complete",
                                [epoch |-> epoch + 1, score |-> epoch_result.score]) >>
                     ELSE << >>)
    /\ epoch' = epoch + 1
    /\ pc' = "epoch_head"
    /\ UNCHANGED << req, env, cmds, eval_timeout >>

\* subprocess.run returns or raises: the outcome of the last call
ProcEnds(outcome) == procs' = [procs EXCEPT ![Len(procs)].outcome = outcome]

timeout_details_in_minutes(timeout) == [timeout_seconds |-> timeout \div 60]

\* details of the EVALUATION_TIMEOUT error: {"timeout_seconds": eval_timeout}
timeout_details(timeout) == [timeout_seconds |-> timeout]

\* subprocess.run raises TimeoutExpired
ProcTimeout ==
    /\ pc = "running"
    /\ ProcEnds("timeout")
    /\ UNCHANGED << buildVars, sampleVars, auxVars >>
    /\ YieldAndReturn(<< create_error("EVALUATION_TIMEOUT", timeout_details(eval_timeout)) >>)

\* "dependency_error_patterns"
dependency_error_patterns ==
    { <<"p", "l", "e", "a", "s", "e", " ", "i", "n", "s", "t", "a", "l", "l">>,
      <<"m", "o", "d", "u", "l", "e", "n", "o", "t", "f", "o", "u", "n", "d", "e", "r", "r", "o", "r">>,
      <<"n", "o", " ", "m", "o", "d", "u", "l", "e", " ", "n", "a", "m", "e", "d">>,
      <<"i", "m", "p", "o", "r", "t", "e", "r", "r", "o", "r">>,
      <<"d", "o", "c", "k", "e", "r">>,
      <<"p", "a", "c", "k", "a", "g", "e", " ", "n", "o", "t", " ", "f", "o", "u", "n", "d">>,
      <<"s", "w", "e", "b", "e", "n", "c", "h">>,
      <<"m", "l", "e", "b", "e", "n", "c", "h">>,
      <<"p", "l", "a", "y", "w", "r", "i", "g", "h", "t">>,
      <<"g", "e", "n", "s", "i", "m">> }

is_dependency_error_case_sensitive(error_msg) ==
    \E pattern \in dependency_error_patterns : Contains(error_msg, pattern)

\* any(pattern in error_msg.lower() for pattern in dependency_error_patterns)
is_dependency_error(error_msg) ==
    \E pattern \in dependency_error_patterns : Contains(Lower(error_msg), pattern)

\* text[:n]
Prefix(text, n) == SubSeq(text, 1, IF Len(text) < n THEN Len(text) ELSE n)

\* result.stderr or result.stdout or "Unknown error"
captured_error(stderr, stdout) ==
    IF stderr # <<>> THEN stderr ELSE IF stdout # <<>> THEN stdout
    ELSE <<"U", "n", "k", "n", "o", "w", "n", " ", "e", "r", "r", "o", "r">>

\* the three error events of a non-zero exit
nonzero_exit_error(benchmark, error_msg, returncode) ==
    LET dep_info == get_benchmark_dependency_info(benchmark)
    IN IF is_dependency_error(error_msg) /\ dep_info # None
       THEN create_error("EVALUATION_FAILED",
                [stderr |-> Prefix(error_msg, StderrPreviewLen), returncode |-> returncode,
                 dependency_info |-> dep_info, message |-> "requires additional dependencies"])
       ELSE IF is_dependency_error(error_msg)
       THEN create_error("EVALUATION_FAILED",
                [stderr |-> Prefix(error_msg, StderrPreviewLen), returncode |-> returncode,
                 dependency_info |-> None, message |-> "failed due to missing dependencies"])
       ELSE create_error("EVALUATION_FAILED",
                [stderr |-> Prefix(error_msg, StderrPreviewLen), returncode |-> returncode,
                 dependency_info |-> None, message |-> "evaluation failed"])

\* a text of 1010 characters that begins with the given one
Padded(text) == text \o [i \in 1..(1010 - Len(text)) |-> "x"]

\* what a failed process leaves: stderr, stdout and the return code
FailedProcesses ==
    { [stderr |-> <<"N", "o", " ", "M", "o", "d", "u", "l", "e", " ", "N", "a", "m", "e", "d", " ", "x">>, stdout |-> <<>>, returncode |-> 1],
      [stderr |-> <<>>, stdout |-> <<"D", "o", "c", "k", "e", "r", " ", "i", "s", " ", "d", "o", "w", "n">>, returncode |-> 2],
      [stderr |-> <<"4", "0", "1", " ", "b", "a", "d", " ", "k", "e", "y">>, stdout |-> <<"d", "o", "c", "k", "e", "r">>, returncode |-> 1],
      [stderr |-> <<>>, stdout |-> <<>>, returncode |-> 1],
      [stderr |-> Padded(<<"I", "m", "p", "o", "r", "t", "E", "r", "r", "o", "r", ":", " ", "y">>), stdout |-> <<>>, returncode |-> 1],
      [stderr |-> <<"4", "2", "9", " ", "s", "l", "o", "w", " ", "d", "o", "w", "n">>, stdout |-> <<>>, returncode |-> 1] }

\* the process exits with a non-zero return code
ProcNonZeroExit ==
    /\ pc = "running"
    /\ UNCHANGED << buildVars, sampleVars, auxVars >>
    /\ \E result \in FailedProcesses :
          /\ procs' = [procs EXCEPT ![Len(procs)] =
                          [timeout |-> @.timeout, outcome |-> "exit_nonzero",
                           stderr |-> result.stderr, stdout |-> result.stdout,
                           returncode |-> result.returncode]]
          /\ YieldAndReturn(<< nonzero_exit_error(req.benchmark,
                                   captured_error(result.stderr, result.stdout),
                                   result.returncode) >>)

\* exit code 0, a log file was found, parse_log_results returned nothing
ProcLogUnparsable ==
    /\ pc = "running"
    /\ ProcEnds("exit_zero")
    /\ UNCHANGED << buildVars, sampleVars, auxVars >>
    /\ YieldAndReturn(<< create_error("PARSE_ERROR", [message |-> "Failed to parse results"]) >>)

\* first element of a non-empty set of numbers
Least(S) == CHOOSE i \in S : \A j \in S : i <= j

\* the per-sample loop: the result events of the samples before the first one
\* whose loop body raises (bad: the samples whose body raises)
results_before(samples, ep, bad) ==
    [evs |-> [i \in 1..((IF bad = {} THEN Len(samples) + 1 ELSE Least(bad)) - 1)
                 |-> sample_result(samples, i, ep).ret],
     raised |-> bad # {}]

sample_results(samples, ep) ==
    results_before(samples, ep,
                   { i \in 1..Len(samples) : sample_result(samples, i, ep).exc })

\* what the parsed samples lead to: an exception of is_sample_correct or of
\* the per-sample loop is caught by "except Exception"
AfterParsed(samples, results) ==
    IF \E i \in 1..Len(samples) : is_sample_correct(samples[i]).exc
    THEN YieldAndReturn(<< create_error("EVALUATION_FAILED",
                              [message |-> "failed unexpectedly"]) >>)
    ELSE IF results.raised
    THEN YieldAndReturn(results.evs \o
                        << create_error("EVALUATION_FAILED",
                              [message |-> "failed unexpectedly"]) >>)
    ELSE EndEpoch(results.evs,
                  epoch_result_of(epoch, count_correct(samples), Len(samples)))

\* exit code 0, a log file was found and parsed into samples
ProcLogParsed ==
    /\ pc = "running"
    /\ ProcEnds("exit_zero")
    /\ UNCHANGED << buildVars, sampleVars, auxVars >>
    /\ \E samples \in SampleLists :
          AfterParsed(samples,
                      IF emit_sample_results(epoch)
                      THEN sample_results(samples, epoch)
                      ELSE [evs |-> <<>>, raised |-> FALSE])

\* exit code 0, no log file: scrape an accuracy figure from stdout
ProcNoLog ==
    /\ pc = "running"
    /\ ProcEnds("exit_zero")
    /\ UNCHANGED << buildVars, sampleVars, auxVars >>
    /\ \E score_match \in { None } \cup { Some(f) : f \in ScrapedFigures } :
          LET fallback == create_progress("parsing_output", NoDetails)
          IN IF score_match = None
             THEN YieldAndReturn(<< fallback,
                      create_error("PARSE_ERROR", [message |-> "Could not parse benchmark results"]) >>)
             ELSE IF ~score_match[1].ok
             THEN \* float() raises ValueError, caught by "except Exception"
                  YieldAndReturn(<< fallback,
                      create_error("EVALUATION_FAILED", [message |-> "failed unexpectedly"]) >>)
             ELSE EndEpoch(<< fallback >>,
                           scraped_epoch_result(epoch, score_match[1].h, req.limit))

\* after the loop: the complete event
Aggregate ==
    /\ pc = "epoch_head"
    /\ epoch >= req.epochs
    /\ UNCHANGED << procs, buildVars, sampleVars, auxVars >>
    /\ LET provider == ProviderLower(req.provider)
           scores == [i \in 1..Len(all_epoch_results) |-> all_epoch_results[i].score]
           common == [model |-> req.model_id, benchmark |-> req.benchmark,
                      provider |-> provider, provider_name |-> PROVIDERS[provider].name,
                      seed |-> req.seed]
       IN IF req.epochs > 1
          THEN LET min_score == FracMin(scores)
                   max_score == FracMax(scores)
               IN YieldAndReturn(<< create_complete(avg_score(scores),
                       SumSeq([i \in 1..Len(all_epoch_results) |-> all_epoch_results[i].correct]),
                       SumSeq([i \in 1..Len(all_epoch_results) |-> all_epoch_results[i].total]),
                       [common |-> common, min_score |-> min_score, max_score |-> max_score,
                        score_variance |-> FracSub(max_score, min_score),
                        epochs |-> req.epochs, epoch_results |-> all_epoch_results]) >>)
          ELSE LET result_data == IF all_epoch_results # <<>> THEN all_epoch_results[1]
                                  ELSE [score |-> Frac(0, 1), correct |-> 0, total |-> req.limit]
               IN YieldAndReturn(<< create_complete(result_data.score, result_data.correct,
                                                     result_data.total, [common |-> common]) >>)

Next ==
    \/ Start
    \/ EpochBegin
    \/ ProcTimeout
    \/ ProcNonZeroExit
    \/ ProcLogUnparsable
    \/ ProcLogParsed
    \/ ProcNoLog
    \/ Aggregate

Spec == Init /\ [][Next]_vars

\* ---------------------------------------------------------------------------
\* build_inspect_command called directly on every request of a bounded set
\* ---------------------------------------------------------------------------
BuildRequests ==
    [ task_name : { "inspect_evals/mmlu_0_shot" },
      model_id : ModelIds,
      limit : { 1, 25 },
      provider : DOMAIN PROVIDERS,
      temperature : Temperatures,
      seed : Seeds,
      max_tokens : MaxTokensValues,
      reasoning_effort : ReasoningEfforts ]

InitBuild ==
    /\ build_req \in BuildRequests
    /\ build_cmd = None
    /\ RunIdle
    /\ SampleIdle
    /\ AuxIdle

BuildCommand ==
    /\ build_cmd = None
    /\ build_cmd' = Some(build_inspect_command(build_req.task_name, build_req.model_id,
                            build_req.limit, build_req.provider,
                            PROVIDERS[build_req.provider], build_req.temperature,
                            build_req.seed, build_req.max_tokens,
                            build_req.reasoning_effort))
    /\ UNCHANGED << build_req, runVars, sampleVars, auxVars >>

NextBuild == BuildCommand

SpecBuild == InitBuild /\ [][NextBuild]_vars

\* ---------------------------------------------------------------------------
\* The extraction helpers applied to every sample of a bounded set
\* ---------------------------------------------------------------------------
InitExtract ==
    /\ \E c \in Contents : sample \in SampleInputsOf(c)
    /\ scored = None
    /\ RunIdle
    /\ BuildIdle
    /\ AuxIdle

\* what the per-sample loop computes for one sample
ScoreSample ==
    /\ scored = None
    /\ scored' = Some([correct |-> is_sample_correct(sample),
                       predicted |-> extract_predicted(sample),
                       expected |-> extract_expected(sample)])
    /\ UNCHANGED << sample, runVars, buildVars, auxVars >>

NextExtract == ScoreSample

SpecExtract == InitExtract /\ [][NextExtract]_vars

\* ---------------------------------------------------------------------------
\* Properties of the event stream of a run
\* ---------------------------------------------------------------------------
IsTerminal(e) == e.type \in { "complete", "error" }

TerminalIdx == { i \in 1..Len(events) : IsTerminal(events[i]) }

ResultIdx == { i \in 1..Len(events) : events[i].type = "result" }

ProgressIdx == { i \in 1..Len(events) : events[i].type = "progress" }

ResultEvents == SelectSeq(events, LAMBDA e : e.type = "result")

\* C1: a run yields at most one terminal event (complete or error), the terminal
\* event is the last event of the stream, a run that has returned has yielded
\* one, and a run that has yielded one has returned: nothing follows it.
C1_OneTerminalEventLast ==
    /\ Cardinality(TerminalIdx) <= 1
    /\ \A i \in TerminalIdx : i = Len(events)
    /\ (pc = "done") <=> (TerminalIdx # {})

\* a run of several epochs that ended in an error after the first epoch's
\* result events were yielded
C1_Witness ==
    /\ pc = "done"
    /\ req.epochs > 1
    /\ epoch >= 1
    /\ ResultIdx # {}
    /\ events[Len(events)].type = "error"

C3_RunningScore ==
    \A k \in 1..Len(ResultEvents) :
        FracEq(ResultEvents[k].data.running_score,
               Frac(Cardinality({ j \in 1..k : ResultEvents[j].data.correct }), k))

\* two result events, the first correct and the second not: running scores 1/1, 1/2
C3_Witness ==
    /\ Len(ResultEvents) >= 2
    /\ ResultEvents[1].data.correct
    /\ ~ResultEvents[2].data.correct
    /\ ResultEvents[2].data.running_score = Frac(1, 2)

HasFlag(cmd, flag) == \E i \in 1..Len(cmd) : cmd[i] = L(flag)

FlagWithValue(cmd, flag, value) ==
    \E i \in 1..(Len(cmd) - 1) : cmd[i] = L(flag) /\ cmd[i + 1] = value

FlagCount(cmd, flag) == Cardinality({ i \in 1..Len(cmd) : cmd[i] = L(flag) })

DigitVal(c) == CHOOSE d \in 0..9 : Digits[d + 1] = c

IsDigits(s) == s # <<>> /\ \A i \in 1..Len(s) : \E d \in 1..10 : Digits[d] = s[i]

\* the number a string of decimal digits reads as
RECURSIVE NatVal(_)
NatVal(s) == IF s = <<>> THEN 0
             ELSE NatVal(SubSeq(s, 1, Len(s) - 1)) * 10 + DigitVal(s[Len(s)])

\* the number of tenths a decimal string "i.f" reads as, -1 when it is not one
TenthsVal(s) ==
    IF \E i \in 1..Len(s) : s[i] = "."
    THEN LET dot == CHOOSE i \in 1..Len(s) : s[i] = "."
             int_part == SubSeq(s, 1, dot - 1)
             frac_part == SubSeq(s, dot + 1, Len(s))
         IN IF IsDigits(int_part) /\ IsDigits(frac_part) /\ Len(frac_part) = 1
            THEN NatVal(int_part) * 10 + NatVal(frac_part) ELSE 0 - 1
    ELSE 0 - 1

BuiltReasoningNoEffort ==
    /\ build_cmd # None
    /\ is_reasoning_model(build_req.model_id)
    /\ build_req.reasoning_effort = None

\* C7 as stated: for every reasoning model id and every provider the command
\* built without an explicit effort includes a --reasoning-effort flag, 'none'
\* for OpenAI-family ids via openrouter and 'medium' with --reasoning-summary
\* auto via openai.
C7_EffortFlagEveryProvider ==
    BuiltReasoningNoEffort =>
        /\ HasFlag(build_cmd[1], "--reasoning-effort")
        /\ (build_req.provider = "openrouter" /\ is_openai_reasoning(build_req.model_id))
              => FlagWithValue(build_cmd[1], "--reasoning-effort", L("none"))
        /\ (build_req.provider = "openai")
              => /\ FlagWithValue(build_cmd[1], "--reasoning-effort", L("medium"))
                 /\ FlagWithValue(build_cmd[1], "--reasoning-summary", L("auto"))

\* C7 amended: for a reasoning model id and no explicit effort the command has
\* '--reasoning-effort none' for OpenAI-family ids via openrouter,
\* '--reasoning-effort medium' and '--reasoning-summary auto' via openai, and
\* no --reasoning-effort flag for every other provider and model.
C7_EffortFlagByProviderPolicy ==
    BuiltReasoningNoEffort =>
        IF build_req.provider = "openrouter" /\ is_openai_reasoning(build_req.model_id)
        THEN /\ FlagWithValue(build_cmd[1], "--reasoning-effort", L("none"))
             /\ FlagCount(build_cmd[1], "--reasoning-effort") = 1
             /\ ~HasFlag(build_cmd[1], "--reasoning-summary")
        ELSE IF build_req.provider = "openai"
        THEN /\ FlagWithValue(build_cmd[1], "--reasoning-effort", L("medium"))
             /\ FlagCount(build_cmd[1], "--reasoning-effort") = 1
             /\ FlagWithValue(build_cmd[1], "--reasoning-summary", L("auto"))
        ELSE /\ ~HasFlag(build_cmd[1], "--reasoning-effort")
             /\ ~HasFlag(build_cmd[1], "--reasoning-summary")

\* a reasoning model built for the anthropic provider: no effort flag
C7_Witness ==
    /\ BuiltReasoningNoEffort
    /\ build_req.provider = "anthropic"
    /\ ~HasFlag(build_cmd[1], "--reasoning-effort")

\* C8: the command has a --temperature flag exactly when the model id is not a
\* reasoning model and a temperature was given (0.0 included); the flag occurs
\* once and the argument after it reads as the requested temperature.
C8_TemperatureFlag ==
    build_cmd # None =>
        /\ HasFlag(build_cmd[1], "--temperature")
              <=> (~is_reasoning_model(build_req.model_id) /\ build_req.temperature # None)
        /\ \A i \in 1..Len(build_cmd[1]) :
              build_cmd[1][i] = L("--temperature")
              => /\ i < Len(build_cmd[1])
                 /\ TenthsVal(build_cmd[1][i + 1]) = build_req.temperature[1]
                 /\ FlagCount(build_cmd[1], "--temperature") = 1

\* temperature 0.0 for a model that is not a reasoning model
C8_Witness ==
    /\ build_cmd # None
    /\ ~is_reasoning_model(build_req.model_id)
    /\ build_req.temperature = Some(0)
    /\ FlagWithValue(build_cmd[1], "--temperature", <<"0", ".", "0">>)

\* --sample-shuffle not followed by a seed value
BareShuffle(cmd) ==
    \E i \in 1..Len(cmd) :
        /\ cmd[i] = L("--sample-shuffle")
        /\ (i = Len(cmd) \/ ~IsDigits(cmd[i + 1]))

\* --sample-shuffle followed by a seed value
SeededShuffle(cmd) ==
    \E i \in 1..(Len(cmd) - 1) :
        /\ cmd[i] = L("--sample-shuffle")
        /\ IsDigits(cmd[i + 1])

\* C9: with a seed s (0 included) the command has '--seed s' and
\* '--sample-shuffle s'; without a seed it has a bare '--sample-shuffle' and
\* no '--seed'; exactly one of the two forms appears.
C9_SeedTogglesShuffle ==
    build_cmd # None =>
        /\ FlagCount(build_cmd[1], "--sample-shuffle") = 1
        /\ BareShuffle(build_cmd[1]) # SeededShuffle(build_cmd[1])
        /\ IF build_req.seed # None
           THEN /\ \E i \in 1..(Len(build_cmd[1]) - 1) :
                      /\ build_cmd[1][i] = L("--seed")
                      /\ IsDigits(build_cmd[1][i + 1])
                      /\ NatVal(build_cmd[1][i + 1]) = build_req.seed[1]
                /\ \E i \in 1..(Len(build_cmd[1]) - 1) :
                      /\ build_cmd[1][i] = L("--sample-shuffle")
                      /\ IsDigits(build_cmd[1][i + 1])
                      /\ NatVal(build_cmd[1][i + 1]) = build_req.seed[1]
                /\ FlagCount(build_cmd[1], "--seed") = 1
           ELSE /\ ~HasFlag(build_cmd[1], "--seed")
                /\ BareShuffle(build_cmd[1])

\* a command built with seed 0
C9_Witness ==
    /\ build_cmd # None
    /\ build_req.seed = Some(0)
    /\ FlagWithValue(build_cmd[1], "--seed", <<"0">>)
    /\ FlagWithValue(build_cmd[1], "--sample-shuffle", <<"0">>)

\* ---------------------------------------------------------------------------
\* Properties of the extraction helpers
\* ---------------------------------------------------------------------------
\* the texts of the model's response: the string content or the text blocks
ResponseTexts(s) ==
    IF s.content.kind = "str" THEN { s.content.text }
    ELSE IF s.content.kind = "list"
    THEN { s.content.blocks[i].body :
             i \in { j \in 1..Len(s.content.blocks) : s.content.blocks[j].type = "text" } }
    ELSE {}

\* the reasoning summaries of the model's response
ReasoningSummaries(s) ==
    IF s.content.kind = "list"
    THEN { s.content.blocks[i].body :
             i \in { j \in 1..Len(s.content.blocks) : s.content.blocks[j].type = "reasoning" } }
    ELSE {}

\* the match of the first block of the given type that has one
FirstMatchOfType(s, type) ==
    IF s.content.kind = "str"
    THEN (IF type = "text" THEN AnswerSearch(s.content.text) ELSE None)
    ELSE IF s.content.kind = "list"
    THEN LET hits == { i \in 1..Len(s.content.blocks) :
                          /\ s.content.blocks[i].type = type
                          /\ AnswerSearch(s.content.blocks[i].body) # None }
         IN IF hits = {} THEN None
            ELSE AnswerSearch(s.content.blocks[CHOOSE h \in hits : \A g \in hits : h <= g].body)
    ELSE None

VerdictLetter(s) ==
    IF s.has_choice /\ s.value.kind = "str" /\ Len(s.value.v) = 1
       /\ Upper(s.value.v)[1] \in valid_answers
    THEN Some(Upper(s.value.v)[1]) ELSE None

\* C4: a sample whose response text contains "Answer: B" and whose target is
\* "B" is correct, whatever the scorer fields hold and whether or not the
\* sample has a 'choice' scorer entry.
C4_AnswerBInResponseIsCorrect ==
    (/\ scored # None
     /\ \E t \in ResponseTexts(sample) : Contains(t, TextAnswerB)
     /\ sample.target = <<"B">>)
    => scored[1].correct = Return(TRUE)

\* no step of the fallback chain yields a predicted answer
NoPredictedAnswer(s) ==
    /\ \A t \in ResponseTexts(s) \cup ReasoningSummaries(s) : AnswerSearch(t) = None
    /\ AnswerSearch(s.completion) = None
    /\ s.has_choice => AnswerSearch(s.explanation) = None
    /\ VerdictLetter(s) = None

\* C5: a sample (here one that carries a 'choice' scorer entry) in which no
\* step of the fallback chain yields a predicted answer is not correct, and
\* the helpers raise no exception on it, whatever the shape of its fields.
C5_NoAnswerIsIncorrectNoRaise ==
    (scored # None /\ sample.has_choice /\ NoPredictedAnswer(sample))
    => /\ scored[1].correct = Return(FALSE)
       /\ ~scored[1].predicted.exc

\* the answer of the highest-priority source with a match: response text,
\* reasoning summary, completion, scorer explanation, scorer verdict letter
PriorityAnswer(s) ==
    LET text == FirstMatchOfType(s, "text")
        reasoning == FirstMatchOfType(s, "reasoning")
        completion == AnswerSearch(s.completion)
        explanation == IF s.has_choice THEN AnswerSearch(s.explanation) ELSE None
    IN IF text # None THEN Upper(text)
       ELSE IF reasoning # None THEN Upper(reasoning)
       ELSE IF completion # None THEN Upper(completion)
       ELSE IF explanation # None THEN Upper(explanation)
       ELSE IF VerdictLetter(s) # None THEN VerdictLetter(s)
       ELSE <<>>

\* C6: extract_predicted returns the answer of the highest-priority source
\* that has a match; a text block wins over a reasoning block whatever the
\* order of the blocks.
C6_HighestPrioritySourceWins ==
    (scored # None /\ ~scored[1].predicted.exc)
    => scored[1].predicted.ret = PriorityAnswer(sample)

\* ---------------------------------------------------------------------------
\* The output-token budget of the built command
\* ---------------------------------------------------------------------------
\* the values the command carries after --max-tokens and in max_non_cot_tokens=
EmittedMaxTokens(cmd) ==
    { NatVal(cmd[i + 1]) : i \in { j \in 1..(Len(cmd) - 1) : cmd[j] = L("--max-tokens") } }
    \cup { NatVal(Tail(cmd[i + 1])) :
             i \in { j \in 1..(Len(cmd) - 1) :
                       cmd[j] = L("-T") /\ Head(cmd[j + 1]) = "max_non_cot_tokens=" } }

\* C11 as stated: whatever max_tokens is requested (none, below the floor,
\* above it), the value emitted for --max-tokens and for max_non_cot_tokens
\* is present and never below 1024.
C11_MaxTokensNeverBelowFloor ==
    build_cmd # None =>
        /\ EmittedMaxTokens(build_cmd[1]) # {}
        /\ \A v \in EmittedMaxTokens(build_cmd[1]) : v >= 1024

\* ---------------------------------------------------------------------------
\* Aggregation across epochs
\* ---------------------------------------------------------------------------
CompleteIdx == { i \in 1..Len(events) : events[i].type = "complete" }

\* the per-epoch scores a multi-epoch complete event reports
EpochScores(e) == [i \in 1..Len(e.data.extra.epoch_results) |-> e.data.extra.epoch_results[i].score]

C13_FirstEpochDetailAllEpochsAggregate ==
    req.epochs > 1 =>
        /\ \A i \in ResultIdx : events[i].data.epoch = 1
        /\ \A i \in ResultIdx : \A j \in ProgressIdx :
              (events[j].data.message = "epoch_start" /\ events[j].data.extra.epoch >= 2)
                  => i < j
        /\ \A c \in CompleteIdx :
              /\ epoch = req.epochs
              /\ Len(cmds) = req.epochs
              /\ Len(events[c].data.extra.epoch_results) = req.epochs
              /\ \A i \in 1..req.epochs : events[c].data.extra.epoch_results[i].epoch = i

\* a completed two-epoch run with per-sample results, whose second epoch
\* parsed samples too (its epoch_result counts them)
C13_Witness ==
    /\ pc = "done"
    /\ req.epochs > 1
    /\ ResultIdx # {}
    /\ \E c \in CompleteIdx :
          /\ Len(events[c].data.extra.epoch_results) = req.epochs
          /\ events[c].data.extra.epoch_results[2].total > 0
          /\ events[c].data.extra.epoch_results[2].correct > 0

\* ---------------------------------------------------------------------------
\* parse_log_results and the log lookup of the runner
\* ---------------------------------------------------------------------------
\* working directory of the service
Cwd == <<"/", "w">>

\* str.startswith, str.endswith
StartsWith(s, prefix) == Len(prefix) <= Len(s) /\ SubSeq(s, 1, Len(prefix)) = prefix

EndsWith(s, suffix) ==
    Len(suffix) <= Len(s) /\ SubSeq(s, Len(s) - Len(suffix) + 1, Len(s)) = suffix

\* position of the first "/" of p, 0 when there is none
FirstSep(p) == IF \A i \in 1..Len(p) : p[i] # "/" THEN 0
               ELSE CHOOSE i \in 1..Len(p) : p[i] = "/" /\ \A j \in 1..(i - 1) : p[j] # "/"

\* the components of a path, split at "/"
RECURSIVE SplitPath(_)
SplitPath(p) ==
    IF FirstSep(p) = 0 THEN << p >>
    ELSE << SubSeq(p, 1, FirstSep(p) - 1) >> \o SplitPath(SubSeq(p, FirstSep(p) + 1, Len(p)))

\* os.path.normpath on the components of an absolute path: empty and "."
\* components are dropped, ".." drops the component before it
RECURSIVE NormComps(_, _)
NormComps(comps, acc) ==
    IF comps = <<>> THEN acc
    ELSE IF Head(comps) \in { <<>>, <<".">> } THEN NormComps(Tail(comps), acc)
    ELSE IF Head(comps) = <<".", ".">>
    THEN NormComps(Tail(comps), IF acc = <<>> THEN acc ELSE SubSeq(acc, 1, Len(acc) - 1))
    ELSE NormComps(Tail(comps), Append(acc, Head(comps)))

RECURSIVE JoinPath(_)
JoinPath(comps) ==
    IF comps = <<>> THEN <<>> ELSE <<"/">> \o Head(comps) \o JoinPath(Tail(comps))

\* "/" for no components
RootOr(joined) == IF joined = <<>> THEN <<"/">> ELSE joined

\* os.path.abspath: normpath(join(cwd, path)), lexical
abspath(path) ==
    RootOr(JoinPath(NormComps(SplitPath(IF StartsWith(path, <<"/">>) THEN path
                                        ELSE Cwd \o <<"/">> \o path), <<>>)))

logs_dir == abspath(<<"l", "o", "g", "s">>)

within_logs_dir_by_prefix(resolved_path) == StartsWith(resolved_path, logs_dir)

\* "resolved_path.startswith(logs_dir + os.sep) or resolved_path == logs_dir"
within_logs_dir(resolved_path) ==
    StartsWith(resolved_path, logs_dir \o <<"/">>) \/ resolved_path = logs_dir

\* one file access
Access(op, path) == [op |-> op, path |-> path]

\* open(log_path) and json.load: a missing file and invalid JSON are caught
\* and give None, a directory raises IsADirectoryError, which is not caught
open_and_load(log_path, fs) ==
    IF ~fs.exists THEN "none"
    ELSE IF abspath(log_path) = logs_dir THEN "raise"
    ELSE IF fs.json_ok THEN "data" ELSE "none"

\* parse_log_results: the outcome ("data", "none" for None, "raise") and the
\* file accesses made on the way
parse_log_results(log_path, fs) ==
    IF ~within_logs_dir(abspath(log_path))
    THEN [ret |-> "none", access |-> <<>>]
    ELSE IF EndsWith(log_path, <<".", "e", "v", "a", "l">>)
    THEN (IF fs.exists /\ fs.zip
          THEN [ret |-> IF fs.json_ok THEN "data" ELSE "none",
                access |-> << Access("is_zipfile", log_path), Access("ZipFile", log_path) >>]
          ELSE [ret |-> open_and_load(log_path, fs),
                access |-> << Access("is_zipfile", log_path), Access("open", log_path) >>])
    ELSE [ret |-> open_and_load(log_path, fs),
          access |-> << Access("open", log_path) >>]

\* [\w\-\+\.]
LogNameChars == (ModelIdChars \ { ":", "/" }) \cup { "+" }

\* last index of the run of name characters that starts at position p
RECURSIVE NameRunEnd(_, _)
NameRunEnd(line, p) ==
    IF p <= Len(line) /\ line[p] \in LogNameChars THEN NameRunEnd(line, p + 1) ELSE p - 1

\* greatest element of a set of numbers, 0 for the empty set
Greatest(S) == IF S = {} THEN 0 ELSE CHOOSE i \in S : \A j \in S : j <= i

\* the end of the match of logs/[\w\-\+\.]+\.(?:eval|json) at position p, 0 when
\* there is none: the name is matched greedily and backtracks to the last
\* ".eval" or ".json" of the run that leaves it a first character
LogMatchAt(line, p) ==
    IF p + 4 <= Len(line) /\ SubSeq(line, p, p + 4) = <<"l", "o", "g", "s", "/">>
    THEN Greatest({ k \in (p + 10)..NameRunEnd(line, p + 5) :
                      SubSeq(line, k - 4, k) \in { <<".", "e", "v", "a", "l">>, <<".", "j", "s", "o", "n">> } })
    ELSE 0

\* re.search of the pattern from position p on: None or the leftmost match
RECURSIVE LogPathSearchFrom(_, _)
LogPathSearchFrom(line, p) ==
    IF p > Len(line) THEN None
    ELSE IF LogMatchAt(line, p) # 0 THEN Some(SubSeq(line, p, LogMatchAt(line, p)))
    ELSE LogPathSearchFrom(line, p + 1)

\* 'if "Log:" in line or ("logs/" in line.lower() and (".eval" in line or ".json" in line))'
line_mentions_log(line) ==
    \/ Contains(line, <<"L", "o", "g", ":">>)
    \/ /\ Contains(Lower(line), <<"l", "o", "g", "s", "/">>)
       /\ (Contains(line, <<".", "e", "v", "a", "l">>) \/ Contains(line, <<".", "j", "s", "o", "n">>))

\* the log path the runner reads from one line of the process output
find_log_path(line) ==
    IF line_mentions_log(line) THEN LogPathSearchFrom(line, 1) ELSE None

\* what the runner does with the path it found: os.path.exists, then
\* parse_log_results; without a path, or with a path that does not exist, it
\* falls back to the output text
lookup_found(log_path, fs) ==
    IF ~fs.exists
    THEN [ret |-> "fallback", access |-> << Access("exists", log_path) >>]
    ELSE [ret |-> parse_log_results(log_path, fs).ret,
          access |-> << Access("exists", log_path) >> \o parse_log_results(log_path, fs).access]

runner_log_lookup(line, fs) ==
    IF find_log_path(line) = None THEN [ret |-> "fallback", access |-> <<>>]
    ELSE lookup_found(find_log_path(line)[1], fs)

LogPaths ==
    { <<"l", "o", "g", "s", "/", "x", ".", "e", "v", "a", "l">>,
      <<"l", "o", "g", "s", "/", "x", ".", "j", "s", "o", "n">>,
      <<".", ".", "/", ".", ".", "/", "e", "t", "c", "/", "p", "a", "s", "s", "w", "d">>,
      <<"l", "o", "g", "s", "_", "e", "v", "i", "l", "/", "x", ".", "e", "v", "a", "l">>,
      <<"l", "o", "g", "s", "/", ".", ".", "/", "l", "o", "g", "s", "_", "e", "v", "i", "l", "/", "x", ".", "j", "s", "o", "n">>,
      <<"/", "w", "/", "l", "o", "g", "s", "/", "x", ".", "j", "s", "o", "n">>,
      <<"l", "o", "g", "s">>,
      <<"/", "e", "t", "c", "/", "p", "a", "s", "s", "w", "d">>,
      <<"l", "o", "g", "s", "/", ".", ".", "/", ".", ".", "/", "w", "/", "l", "o", "g", "s", "/", "x", ".", "e", "v", "a", "l">>,
      <<".", "/", "l", "o", "g", "s", "/", ".", "/", "x", ".", "e", "v", "a", "l">>,
      <<"/", "w", "/", "l", "o", "g", "s", "/", ".", ".", "/", "x", ".", "j", "s", "o", "n">>,
      <<"/", "w", "/", "l", "o", "g", "s", "_", "e", "v", "i", "l">>,
      <<>> }

OutputLines ==
    { <<"L", "o", "g", ":", " ", "l", "o", "g", "s", "/", "x", ".", "e", "v", "a", "l">>,
      <<"L", "o", "g", ":", " ", ".", ".", "/", ".", ".", "/", "e", "t", "c", "/", "p", "a", "s", "s", "w", "d">>,
      <<"L", "o", "g", ":", " ", "l", "o", "g", "s", "_", "e", "v", "i", "l", "/", "x", ".", "e", "v", "a", "l">>,
      <<"L", "o", "g", ":", " ", ".", ".", "/", "l", "o", "g", "s", "/", "x", ".", "j", "s", "o", "n">>,
      <<"L", "o", "g", ":", " ", "l", "o", "g", "s", "/", ".", ".", "/", "x", ".", "e", "v", "a", "l">>,
      <<"w", "r", "o", "t", "e", " ", "l", "o", "g", "s", "/", "a", "+", "b", ".", "j", "s", "o", "n", " ", "o", "k">>,
      <<"L", "o", "g", ":", " ", "/", "e", "t", "c", "/", "l", "o", "g", "s", "/", "x", ".", "e", "v", "a", "l", ".", "b", "a", "k">>,
      <<"n", "o", " ", "l", "o", "g", " ", "h", "e", "r", "e">>,
      <<"L", "o", "g", ":", " ", "l", "o", "g", "s", "/", ".", ".", "e", "v", "a", "l">> }

\* what the file system answers for the path: it exists, it is a ZIP archive,
\* its content parses as JSON
FileSystems == [exists : BOOLEAN, zip : BOOLEAN, json_ok : BOOLEAN]

InitLog ==
    /\ log_call \in ([kind : { "direct" }, text : LogPaths, fs : FileSystems]
                     \cup [kind : { "runner" }, text : OutputLines, fs : FileSystems])
    /\ fs_access = <<>>
    /\ log_ret = None
    /\ RunIdle
    /\ BuildIdle
    /\ SampleIdle
    /\ RateIdle
    /\ RetryIdle
    /\ SvcIdle
    /\ ExtIdle

\* parse_log_results called with a path
ParseLogResults ==
    /\ log_ret = None
    /\ log_call.kind = "direct"
    /\ fs_access' = fs_access \o parse_log_results(log_call.text, log_call.fs).access
    /\ log_ret' = Some(parse_log_results(log_call.text, log_call.fs).ret)
    /\ UNCHANGED << log_call, runVars, buildVars, sampleVars, rateVars, retryVars, svcVars, extVars >>

\* the runner looks the log up from the output of the process
RunnerLogLookup ==
    /\ log_ret = None
    /\ log_call.kind = "runner"
    /\ fs_access' = fs_access \o runner_log_lookup(log_call.text, log_call.fs).access
    /\ log_ret' = Some(runner_log_lookup(log_call.text, log_call.fs).ret)
    /\ UNCHANGED << log_call, runVars, buildVars, sampleVars, rateVars, retryVars, svcVars, extVars >>

NextLog == ParseLogResults \/ RunnerLogLookup

SpecLog == InitLog /\ [][NextLog]_vars

\* the path lies in the logs directory: the components of its absolute form
\* start with those of the working directory followed by "logs"
InsideLogs(path) ==
    LET comps == NormComps(SplitPath(IF StartsWith(path, <<"/">>) THEN path
                                     ELSE Cwd \o <<"/">> \o path), <<>>)
        base == NormComps(SplitPath(Cwd), <<>>) \o << <<"l", "o", "g", "s">> >>
    IN Len(comps) >= Len(base) /\ SubSeq(comps, 1, Len(base)) = base

\* C14: no file access (existence check, zip probe, open) is ever made on a
\* path that lies outside the logs directory, by parse_log_results or by the
\* runner's lookup, and parse_log_results returns None for such a path.
C14_OutsidePathNeverAccessed ==
    /\ \A i \in 1..Len(fs_access) : InsideLogs(fs_access[i].path)
    /\ (log_ret # None /\ log_call.kind = "direct" /\ ~InsideLogs(log_call.text))
          => (log_ret = Some("none") /\ fs_access = <<>>)

\* parse_log_results has rejected an existing file of a sibling directory
\* whose name starts with "logs"
C14_Witness ==
    /\ log_ret = Some("none")
    /\ log_call.kind = "direct"
    /\ log_call.fs.exists
    /\ ~InsideLogs(log_call.text)
    /\ StartsWith(abspath(log_call.text), logs_dir)
    /\ fs_access = <<>>

\* ---------------------------------------------------------------------------
\* Parameter and lookup errors
\* ---------------------------------------------------------------------------
\* the model id is well formed: not blank, at most 200 characters, all of them
\* letters, digits or one of . _ : / -
WellFormedModelId(m) ==
    /\ Strip(m) # <<>>
    /\ Len(m) <= 200
    /\ \A i \in 1..Len(m) : m[i] \in ModelIdChars

\* the request has a parameter out of its format or bounds
HasInvalidParameter(r) ==
    \/ ~WellFormedModelId(r.model_id)
    \/ r.limit \notin 1..10000
    \/ (r.temperature # None /\ r.temperature[1] \notin 0..20)
    \/ (r.seed # None /\ r.seed[1] < 0)
    \/ r.epochs \notin 1..100

\* the error codes of the parameter and lookup problems of a request in an
\* environment
ProblemCodes(r, e) ==
    (IF HasInvalidParameter(r) THEN { "INVALID_PARAMETER" } ELSE {})
    \cup (IF ProviderLower(r.provider) \notin DOMAIN PROVIDERS THEN { "PROVIDER_NOT_FOUND" } ELSE {})
    \cup (IF r.benchmark \notin DOMAIN SUPPORTED_BENCHMARKS THEN { "BENCHMARK_NOT_FOUND" } ELSE {})
    \cup (IF /\ ProviderLower(r.provider) \in DOMAIN PROVIDERS
             /\ r.api_key = None
             /\ PROVIDERS[ProviderLower(r.provider)].api_key_env \notin e.keys
          THEN { "API_KEY_MISSING" } ELSE {})

FoundArtifactParseFailure(e) ==
    e.type = "error" /\ e.data.details = [message |-> "Failed to parse results"]

\* the error of the text-scrape fallback that found no accuracy figure
ScrapeFailure(e) ==
    e.type = "error" /\ e.data.details = [message |-> "Could not parse benchmark results"]

\* C16 as stated: the parse failure of a found artifact carries the code
\* PARSE_ERROR, and the failure of the text-scrape fallback (no artifact found,
\* no figure in the output) carries a different code, so that the code alone
\* tells the two apart.
C16_ParseFailureKindDistinct ==
    \A i \in 1..Len(events) :
        /\ FoundArtifactParseFailure(events[i]) => events[i].data.code = "PARSE_ERROR"
        /\ ScrapeFailure(events[i]) => events[i].data.code # "PARSE_ERROR"

\* ---------------------------------------------------------------------------
\* Timeout of the external process
\* ---------------------------------------------------------------------------
\* C17: when a process call of any epoch timed out, it was the last call of
\* the run, the run has returned, its last event is an error of code
\* EVALUATION_TIMEOUT whose details name the deadline passed to that call, and
\* the stream holds no complete event.
C17_TimeoutEndsRunNamingDeadline ==
    \A i \in 1..Len(procs) :
        procs[i].outcome = "timeout" =>
            /\ i = Len(procs)
            /\ pc = "done"
            /\ events[Len(events)].type = "error"
            /\ events[Len(events)].data.code = "EVALUATION_TIMEOUT"
            /\ events[Len(events)].data.details.timeout_seconds = procs[i].timeout
            /\ CompleteIdx = {}

\* the second epoch's process timed out after the first epoch finished
C17_Witness ==
    /\ Len(procs) = 2
    /\ procs[1].outcome = "exit_zero"
    /\ procs[2].outcome = "timeout"
    /\ Len(all_epoch_results) = 1
    /\ procs[2].timeout > 0

\* ---------------------------------------------------------------------------
\* Rate limiting of the service (check_rate_limit, rate_limit_middleware)
\* ---------------------------------------------------------------------------
MaxRateLimit == 2

MaxSubmissions == 4

MaxClock == 5

\* ticks of the clock per second
TicksPerSecond == 2

\* the entries of a list that satisfy a condition on their value
RECURSIVE NewerThan(_, _)
NewerThan(times, window_start) ==
    IF times = <<>> THEN <<>>
    ELSE (IF Head(times) > window_start THEN << Head(times) >> ELSE <<>>)
         \o NewerThan(Tail(times), window_start)

\* min of a non-empty list
ListMin(times) == CHOOSE t \in { times[i] : i \in 1..Len(times) } :
                      \A i \in 1..Len(times) : t <= times[i]

\* int() of a number of ticks, in seconds: truncation toward zero
IntSeconds(ticks) == IF ticks >= 0 THEN ticks \div TicksPerSecond
                     ELSE 0 - ((0 - ticks) \div TicksPerSecond)

\* "reset_time": seconds until the oldest request expires
reset_time_of(kept, cfg, t) ==
    IF kept # <<>> THEN IntSeconds(ListMin(kept) + cfg.window * TicksPerSecond - t)
    ELSE cfg.window

under_limit_inclusive(current_count, cfg) == current_count <= cfg.requests

\* the negation of "if current_count >= RATE_LIMIT_REQUESTS: return False"
under_limit(current_count, cfg) == current_count < cfg.requests

rate_decision_recording_rejected(kept, cfg, t) ==
    IF ~under_limit(Len(kept), cfg)
    THEN [allowed |-> FALSE, remaining |-> 0, reset_time |-> reset_time_of(kept, cfg, t),
          store |-> Append(kept, t)]
    ELSE [allowed |-> TRUE, remaining |-> Max(0, cfg.requests - Len(kept)) - 1,
          reset_time |-> reset_time_of(kept, cfg, t), store |-> Append(kept, t)]

\* check_rate_limit on the cleaned list of the client: (allowed, remaining,
\* reset_time) and the list it leaves in the store
rate_decision(kept, cfg, t) ==
    IF ~under_limit(Len(kept), cfg)
    THEN [allowed |-> FALSE, remaining |-> 0, reset_time |-> reset_time_of(kept, cfg, t),
          store |-> kept]
    ELSE [allowed |-> TRUE, remaining |-> Max(0, cfg.requests - Len(kept)) - 1,
          reset_time |-> reset_time_of(kept, cfg, t), store |-> Append(kept, t)]

check_rate_limit(store, client_ip, cfg, t) ==
    rate_decision(NewerThan(store[client_ip], t - cfg.window * TicksPerSecond), cfg, t)

\* request.url.path.startswith("/run")
RateLimitedPaths == { "/run", "/run/stream" }

Clients == { "a", "b" }

Submissions == { [ip |-> "a", path |-> "/run"], [ip |-> "a", path |-> "/run/stream"],
                 [ip |-> "b", path |-> "/run"], [ip |-> "a", path |-> "/health"] }

InitRate ==
    /\ rate_cfg \in [requests : 1..MaxRateLimit, window : { 1, 2 }]
    /\ rate_limit_store = [c \in Clients |-> <<>>]
    /\ now = 0
    /\ served = <<>>
    /\ RunIdle
    /\ BuildIdle
    /\ SampleIdle
    /\ LogIdle
    /\ RetryIdle
    /\ SvcIdle
    /\ ExtIdle

\* the answer of the middleware to a rate-limited request
rate_limited_response(sub, d, t) ==
    IF d.allowed
    THEN [ip |-> sub.ip, path |-> sub.path, at |-> t, status |-> 200,
          remaining |-> d.remaining, retry_after |-> None]
    ELSE [ip |-> sub.ip, path |-> sub.path, at |-> t, status |-> 429,
          remaining |-> 0, retry_after |-> Some(d.reset_time)]

\* rate_limit_middleware answers one request
Submit ==
    /\ Len(served) < MaxSubmissions
    /\ \E sub \in Submissions :
          IF sub.path \in RateLimitedPaths
          THEN /\ rate_limit_store' =
                     [rate_limit_store EXCEPT ![sub.ip] =
                         check_rate_limit(rate_limit_store, sub.ip, rate_cfg, now).store]
               /\ served' = Append(served,
                     rate_limited_response(sub,
                         check_rate_limit(rate_limit_store, sub.ip, rate_cfg, now), now))
          ELSE /\ served' = Append(served, [ip |-> sub.ip, path |-> sub.path, at |-> now,
                                            status |-> 200, remaining |-> 0,
                                            retry_after |-> None])
               /\ UNCHANGED rate_limit_store
    /\ UNCHANGED << rate_cfg, now, runVars, buildVars, sampleVars, logVars, retryVars, svcVars, extVars >>

\* time passes
Tick ==
    /\ now < MaxClock
    /\ now' = now + 1
    /\ UNCHANGED << rate_cfg, rate_limit_store, served, runVars, buildVars, sampleVars, logVars, retryVars, svcVars, extVars >>

NextRate == Submit \/ Tick

SpecRate == InitRate /\ [][NextRate]_vars

\* the rate-limited requests of a client, in the order they were answered
RunSubmissionsOf(ip) ==
    SelectSeq(served, LAMBDA r : r.ip = ip /\ r.path \in RateLimitedPaths)

\* C18: with a limit of N requests per window, when the first N+1 /run
\* submissions of an address fall inside one window, the first N are admitted
\* and the (N+1)-th is answered 429 with a Retry-After value >= 0.
C18_FirstNAdmittedNextRejected ==
    \A ip \in Clients :
        LET subs == RunSubmissionsOf(ip)
            n == rate_cfg.requests
        IN /\ \A k \in 1..Len(subs) :
                 (k <= n /\ subs[k].at - subs[1].at < rate_cfg.window * TicksPerSecond)
                    => subs[k].status = 200
           /\ (Len(subs) > n /\ subs[n + 1].at - subs[1].at < rate_cfg.window * TicksPerSecond)
                 => /\ subs[n + 1].status = 429
                    /\ subs[n + 1].retry_after # None
                    /\ subs[n + 1].retry_after[1] >= 0

\* two admitted requests and a rejected third, inside one window of limit 2,
\* the rejected one later than the first
C18_Witness ==
    /\ rate_cfg.requests = 2
    /\ Len(RunSubmissionsOf("a")) = 3
    /\ RunSubmissionsOf("a")[1].status = 200
    /\ RunSubmissionsOf("a")[2].status = 200
    /\ RunSubmissionsOf("a")[3].status = 429
    /\ RunSubmissionsOf("a")[3].at > RunSubmissionsOf("a")[1].at
    /\ RunSubmissionsOf("a")[3].retry_after = Some(0)

\* the times recorded for a client that lie inside the window that ends now
InWindow(times) ==
    { i \in 1..Len(times) : times[i] > now - rate_cfg.window * TicksPerSecond }

\* the admitted rate-limited requests of a client inside the window that ends now
AdmittedInWindow(ip) ==
    { k \in 1..Len(served) : /\ served[k].ip = ip
                             /\ served[k].path \in RateLimitedPaths
                             /\ served[k].status = 200
                             /\ served[k].at > now - rate_cfg.window * TicksPerSecond }

\* the step answered a rate-limited request
AnsweredRunRequest ==
    /\ Len(served') = Len(served) + 1
    /\ served'[Len(served')].path \in RateLimitedPaths

\* C28: whatever the interleaving of /run requests of the clients and the
\* passage of time, the timestamps recorded for a client inside the current
\* window, and its admitted requests inside it, never number more than the
\* limit; a rejected request leaves every stored list as it was, an admitted
\* one adds its time to the unexpired times of its client; and a request
\* of one client leaves the stored timestamps of every other client, and the
\* decision and remaining count check_rate_limit would give it, unchanged.
C28_WindowCountBoundedAndIsolated ==
    /\ [](\A ip \in Clients :
              /\ Cardinality(InWindow(rate_limit_store[ip])) <= rate_cfg.requests
              /\ Cardinality(AdmittedInWindow(ip)) <= rate_cfg.requests)
    /\ [][AnsweredRunRequest =>
            LET r == served'[Len(served')]
            IN /\ r.status = 429 => rate_limit_store' = rate_limit_store
               /\ r.status = 200 =>
                     rate_limit_store'[r.ip] =
                         Append(SelectSeq(rate_limit_store[r.ip],
                                    LAMBDA t : t > now - rate_cfg.window * TicksPerSecond), now)
               /\ \A o \in Clients \ { r.ip } :
                     /\ rate_limit_store'[o] = rate_limit_store[o]
                     /\ check_rate_limit(rate_limit_store', o, rate_cfg, now)
                            = check_rate_limit(rate_limit_store, o, rate_cfg, now)]_vars

\* client a has used its limit of 2 and was rejected, then client b was
\* admitted with one request remaining, inside the same window
C28_Witness ==
    /\ rate_cfg.requests = 2
    /\ Len(served) = 4
    /\ \A k \in 1..3 : served[k].ip = "a" /\ served[k].path \in RateLimitedPaths
    /\ served[3].status = 429
    /\ served[4].ip = "b"
    /\ served[4].status = 200
    /\ served[4].remaining = 1
    /\ served[4].at > served[1].at
    /\ Cardinality(InWindow(rate_limit_store["a"])) = 2
    /\ Len(rate_limit_store["b"]) = 1

\* ---------------------------------------------------------------------------
\* Retry of a saved run (cmd_retry)
\* ---------------------------------------------------------------------------
MaxSavedEntries == 5

\* an entry of the results list of a saved run
SavedEntry(model, provider, status, score) ==
    [model |-> model, provider |-> provider, status |-> status, score |-> score]

SavedEntries == { SavedEntry("m1", "openrouter", "complete", 80),
                  SavedEntry("m1", "openai", "error", 0),
                  SavedEntry("m2", "openai", "complete", 60),
                  SavedEntry("m2", "openrouter", "running", 0) }

SavedResults == UNION { [1..n -> SavedEntries] : n \in 0..MaxSavedEntries }

\* "[r for r in results if r.get('status') != 'complete']"
FailedEntries(results) == SelectSeq(results, LAMBDA r : r.status # "complete")

keep_all_results(results) == results

\* "[r for r in results if r.get('status') == 'complete']"
successful_results(results) == SelectSeq(results, LAMBDA r : r.status = "complete")

\* "[r['model'] for r in results if r.get('status') != 'complete']"
failed_models(results) ==
    [i \in 1..Len(FailedEntries(results)) |-> FailedEntries(results)[i].model]

\* the result run_single_benchmark returns for a model: complete with the
\* score of the complete event, or error
new_result(model, provider, completes) ==
    IF completes THEN [model |-> model, provider |-> provider, status |-> "complete", score |-> 90]
    ELSE [model |-> model, provider |-> provider, status |-> "error", score |-> 0]

\* the model and provider of the JSON body run_single_benchmark posts
posted_request(model, provider) == [model |-> model, provider |-> provider]

\* the bodies posted by run_parallel_benchmarks, one per model
posted_requests(models, provider) ==
    [i \in 1..Len(models) |-> posted_request(models[i], provider)]

\* run_parallel_benchmarks: asyncio.gather returns one result per model, in the
\* order of the models
run_parallel_benchmarks(models, provider, completes) ==
    [i \in 1..Len(models) |-> new_result(models[i], provider, completes[i])]

InitRetry ==
    /\ retry_call \in [found : { None } \cup { Some(r) : r \in SavedResults }, yes : BOOLEAN]
    /\ retry_pc = "start"
    /\ saved_file = retry_call.found
    /\ executed = <<>>
    /\ RunIdle
    /\ BuildIdle
    /\ SampleIdle
    /\ LogIdle
    /\ RateIdle
    /\ SvcIdle
    /\ ExtIdle

\* cmd_retry up to the confirmation prompt: file lookup, failed models
RetryStart ==
    /\ retry_pc = "start"
    /\ retry_pc' = IF retry_call.found = None THEN "done"
                   ELSE IF failed_models(retry_call.found[1]) = <<>> THEN "done"
                   ELSE IF retry_call.yes THEN "run"
                   ELSE "confirm"
    /\ UNCHANGED << retry_call, saved_file, executed, runVars, buildVars, sampleVars,
                    logVars, rateVars, svcVars, extVars >>

\* console.input: "n" aborts, every other answer goes on
RetryConfirm ==
    /\ retry_pc = "confirm"
    /\ \E answer \in { "n", "N", "y", "" } :
          retry_pc' = IF answer \in { "n", "N" } THEN "done" ELSE "run"
    /\ UNCHANGED << retry_call, saved_file, executed, runVars, buildVars, sampleVars,
                    logVars, rateVars, svcVars, extVars >>

\* run the failed models, merge with the successful results, save
RetryRun ==
    /\ retry_pc = "run"
    /\ executed' = executed \o posted_requests(failed_models(saved_file[1]), "openrouter")
    /\ \E completes \in [1..Len(failed_models(saved_file[1])) -> BOOLEAN] :
          saved_file' = Some(successful_results(saved_file[1])
                             \o run_parallel_benchmarks(failed_models(saved_file[1]),
                                                        "openrouter", completes))
    /\ retry_pc' = "done"
    /\ UNCHANGED << retry_call, runVars, buildVars, sampleVars, logVars, rateVars, svcVars, extVars >>

NextRetry == RetryStart \/ RetryConfirm \/ RetryRun

SpecRetry == InitRetry /\ [][NextRetry]_vars

\* the entries of a list with the given model, as a count
CountModel(models, m) == Cardinality({ i \in 1..Len(models) : models[i].model = m })

\* C19: a retry hands run_parallel_benchmarks exactly the models of the saved
\* entries whose status is not complete, one execution per such entry, and
\* the record it saves holds every previously complete entry unchanged, in
\* their order, followed by one new entry per re-executed model; a retry that
\* executes nothing leaves the record as it was.
C19_RetryRerunsOnlyFailed ==
    (retry_pc = "done" /\ retry_call.found # None) =>
        LET old == retry_call.found[1]
            kept == SelectSeq(old, LAMBDA r : r.status = "complete")
            n_failed == Len(old) - Len(kept)
        IN IF executed = <<>> THEN saved_file = retry_call.found
           ELSE /\ Len(executed) = n_failed
                /\ \A m \in { "m1", "m2" } :
                      CountModel(executed, m) =
                          Cardinality({ i \in 1..Len(old) :
                                          old[i].model = m /\ old[i].status # "complete" })
                /\ Len(saved_file[1]) = Len(old)
                /\ SubSeq(saved_file[1], 1, Len(kept)) = kept
                /\ \A i \in 1..n_failed :
                      saved_file[1][Len(kept) + i].model = executed[i].model

\* the retry of a run with 2 failed and 3 complete entries has saved 5 entries
C19_Witness ==
    /\ retry_pc = "done"
    /\ retry_call.found # None
    /\ Len(retry_call.found[1]) = 5
    /\ Len(SelectSeq(retry_call.found[1], LAMBDA r : r.status = "complete")) = 3
    /\ Len(executed) = 2
    /\ Len(saved_file[1]) = 5
    /\ \E i \in 4..5 : saved_file[1][i].status = "complete" /\ saved_file[1][i].score = 90

\* ---------------------------------------------------------------------------
\* Concurrent runs of the service: the coroutines of run_inspect_evaluation
\* on the one event-loop thread of the application
\* ---------------------------------------------------------------------------
MaxRuns == 3

ServiceRuns == 1..MaxRuns

\* a coroutine that has been started or has yielded and waits to be resumed
Resumable(r) == svc_runs[r].pc \in { "pending", "started", "announced", "dispatched", "executing" }

InitService ==
    /\ svc_runs \in [ServiceRuns -> [epochs : 1..2, pc : { "pending" }, epoch : { 0 },
                                     delivered : { <<>> }]]
    /\ loop_thread = 0
    /\ RunIdle
    /\ BuildIdle
    /\ SampleIdle
    /\ LogIdle
    /\ RateIdle
    /\ RetryIdle
    /\ ExtIdle

\* the event loop resumes the coroutine of run r, which runs to its next
\* yield: the start message, the service's progress message, the dispatch
\* progress event and the "Executing" progress event of the runner
ResumeToYield(r) ==
    /\ loop_thread = 0
    /\ svc_runs[r].pc \in { "pending", "started", "announced", "dispatched" }
    /\ svc_runs' = [svc_runs EXCEPT
          ![r].pc = CASE svc_runs[r].pc = "pending" -> "started"
                      [] svc_runs[r].pc = "started" -> "announced"
                      [] svc_runs[r].pc = "announced" -> "dispatched"
                      [] svc_runs[r].pc = "dispatched" -> "executing",
          ![r].delivered = Append(@, CASE svc_runs[r].pc = "pending" -> "start"
                                       [] svc_runs[r].pc = "started" -> "progress"
                                       [] svc_runs[r].pc = "announced" -> "dispatch"
                                       [] svc_runs[r].pc = "dispatched" -> "executing")]
    /\ UNCHANGED << loop_thread, runVars, buildVars, sampleVars, logVars, rateVars, retryVars, extVars >>

\* resumed after the "Executing" event, the coroutine calls subprocess.run,
\* which returns when the process has ended: the thread stays in the call
EnterProcess(r) ==
    /\ loop_thread = 0
    /\ svc_runs[r].pc = "executing"
    /\ svc_runs' = [svc_runs EXCEPT ![r].pc = "in_process"]
    /\ loop_thread' = r
    /\ UNCHANGED << runVars, buildVars, sampleVars, logVars, rateVars, retryVars, extVars >>

\* the process of run r ends, subprocess.run returns and the coroutine runs
\* to its next yield: the terminal event, or the "Epoch n complete" progress
\* event when another epoch follows
ProcessExit(r) ==
    /\ loop_thread = r
    /\ svc_runs[r].pc = "in_process"
    /\ \E ok \in BOOLEAN :
          svc_runs' = [svc_runs EXCEPT
              ![r].pc = IF ok /\ svc_runs[r].epoch + 1 < svc_runs[r].epochs
                        THEN "dispatched" ELSE "done",
              ![r].epoch = @ + 1,
              ![r].delivered = Append(@, IF ~ok THEN "error"
                                         ELSE IF svc_runs[r].epoch + 1 < svc_runs[r].epochs
                                         THEN "epoch_complete" ELSE "complete")]
    /\ loop_thread' = 0
    /\ UNCHANGED << runVars, buildVars, sampleVars, logVars, rateVars, retryVars, extVars >>

NextService ==
    \E r \in ServiceRuns : ResumeToYield(r) \/ EnterProcess(r) \/ ProcessExit(r)

SpecService == InitService /\ [][NextService]_vars

\* C20 as stated: while the process of one run is executing, every other run
\* that waits to be resumed can go on (start its own process, have its next
\* event delivered) before that process finishes.
C20_OtherRunsProceedDuringProcess ==
    \A r \in ServiceRuns : \A o \in ServiceRuns \ { r } :
        (svc_runs[r].pc = "in_process" /\ Resumable(o))
            => ENABLED (ResumeToYield(o) \/ EnterProcess(o))

\* ---------------------------------------------------------------------------
\* The deadline of the external process
\* ---------------------------------------------------------------------------
\* C24: the deadline given to every external process of a run is never
\* shorter than the configured baseline (timeout argument, else EVAL_TIMEOUT,
\* else 600): it is the baseline for an ordinary run, the larger of the
\* baseline and 60 s per sample for a reasoning model, and at least the fixed
\* floor plus the per-sample allowance for a container-sandbox benchmark.
C24_DeadlineNeverBelowBaseline ==
    \A i \in 1..Len(procs) :
        LET base == base_timeout(req.timeout, env)
            deadline == procs[i].timeout
        IN /\ deadline >= base
           /\ IF req.benchmark \in docker_benchmarks
              THEN deadline >= DockerTimeoutFloor + req.limit * DockerTimeoutPerSample
              ELSE IF is_reasoning_model(req.model_id)
              THEN deadline = Max(base, req.limit * ReasoningTimeoutPerSample)
              ELSE deadline = base

\* ---------------------------------------------------------------------------
\* validate_parameters called directly on every argument list of a bounded set
\* ---------------------------------------------------------------------------
\* an id of 201 characters, all of them allowed
LongModelId == [i \in 1..(MaxModelIdLen + 1) |-> "a"]

ValidateModelIds == { <<>>, <<" ">>, <<"g", "p", "t", "-", "4", "o">>,
                      <<"g", "p", "t", "-", "4", "o", "\n">>, <<"a", " ", "b">>,
                      <<"m", "e", "t", "a", "/", "l", "-", "3", ".", "1", ":", "f", "_", "X">>,
                      SubSeq(LongModelId, 1, MaxModelIdLen), LongModelId }

ValidateCalls ==
    [ model_id : ValidateModelIds,
      benchmark : { "mmlu", "nope" },
      limit : { -1, 0, 1, MaxLimit, MaxLimit + 1 },
      provider : { "openrouter", "OpenAI", "bogus" },
      temperature : { None, Some(-1), Some(0), Some(MaxTemperatureTenths),
                      Some(MaxTemperatureTenths + 1) },
      seed : { None, Some(-1), Some(0) },
      epochs : { None, Some(0), Some(1), Some(MaxEpochCount), Some(MaxEpochCount + 1) } ]

InitValidate ==
    /\ val_call \in ValidateCalls
    /\ val_ret = None
    /\ RunIdle
    /\ BuildIdle
    /\ SampleIdle
    /\ LogIdle
    /\ RateIdle
    /\ RetryIdle
    /\ SvcIdle
    /\ SyncIdle
    /\ CliIdle

ValidateParameters ==
    /\ val_ret = None
    /\ val_ret' = Some(validate_parameters(val_call.model_id, val_call.benchmark,
                                           val_call.limit, val_call.provider,
                                           val_call.temperature, val_call.seed,
                                           val_call.epochs))
    /\ UNCHANGED << val_call, baseVars, syncVars, cliVars >>

NextValidate == ValidateParameters

SpecValidate == InitValidate /\ [][NextValidate]_vars

\* the code of the first failing check of a call, in the order model id,
\* limit, temperature, seed, epochs, provider, benchmark; None when none fails
FirstFailingCheck(c) ==
    IF \/ ~WellFormedModelId(c.model_id)
       \/ c.limit \notin 1..10000
       \/ (c.temperature # None /\ c.temperature[1] \notin 0..20)
       \/ (c.seed # None /\ c.seed[1] < 0)
       \/ (c.epochs # None /\ c.epochs[1] \notin 1..100)
    THEN Some("INVALID_PARAMETER")
    ELSE IF ProviderLower(c.provider) \notin DOMAIN PROVIDERS THEN Some("PROVIDER_NOT_FOUND")
    ELSE IF c.benchmark \notin DOMAIN SUPPORTED_BENCHMARKS THEN Some("BENCHMARK_NOT_FOUND")
    ELSE None

\* C26: validate_parameters returns no error exactly when the model id is
\* non-empty, at most 200 characters and made only of letters, digits and
\* . _ : / -, the limit is in 1..10000, the temperature is absent or in [0, 2],
\* the seed is absent or >= 0, the epoch count is absent or in 1..100, the
\* provider is known and the benchmark is supported; otherwise it returns an
\* error whose code is that of the first failing check.
C26_ValidIffNoError ==
    val_ret # None =>
        IF FirstFailingCheck(val_call) = None THEN val_ret[1] = None
        ELSE /\ val_ret[1] # None
             /\ val_ret[1][1].type = "error"
             /\ val_ret[1][1].data.code = FirstFailingCheck(val_call)[1]

\* ---------------------------------------------------------------------------
\* Non-zero exit of the external process
\* ---------------------------------------------------------------------------
\* the error text captured from a failed process
CapturedText(p) ==
    IF p.stderr # <<>> THEN p.stderr ELSE IF p.stdout # <<>> THEN p.stdout
    ELSE <<"U", "n", "k", "n", "o", "w", "n", " ", "e", "r", "r", "o", "r">>

\* the text holds a known dependency-failure signature, in any letter case
MatchesDependencySignature(text) ==
    \E pattern \in dependency_error_patterns :
        \E k \in 1..(Len(text) - Len(pattern) + 1) :
            /\ LowerChar(text[k]) = pattern[1]
            /\ Lower(SubSeq(text, k, k + Len(pattern) - 1)) = pattern

\* C27: a process that exited with a non-zero code is the last process of its
\* run, and the run has returned with exactly one error event, the last
\* event, of code EVALUATION_FAILED; its details carry the remediation record
\* of the benchmark exactly when the captured error text holds a
\* dependency-failure signature and the benchmark has such a record, and a
\* generic error otherwise; the diagnostics in the details are the first
\* 1000 characters of the captured text.
C27_NonZeroExitEndsRun ==
    \A i \in 1..Len(procs) :
        procs[i].outcome = "exit_nonzero" =>
            LET text == CapturedText(procs[i])
                e == events[Len(events)]
                guided == /\ MatchesDependencySignature(text)
                          /\ req.benchmark \in DOMAIN BENCHMARK_DEPENDENCIES
            IN /\ i = Len(procs)
               /\ pc = "done"
               /\ Cardinality({ k \in 1..Len(events) : events[k].type = "error" }) = 1
               /\ e.type = "error"
               /\ e.data.code = "EVALUATION_FAILED"
               /\ e.data.details.returncode = procs[i].returncode
               /\ Len(e.data.details.stderr) <= 1000
               /\ e.data.details.stderr = SubSeq(text, 1, Len(e.data.details.stderr))
               /\ Len(text) > 1000 => Len(e.data.details.stderr) = 1000
               /\ Len(text) <= 1000 => e.data.details.stderr = text
               /\ IF guided
                  THEN /\ e.data.details.dependency_info = Some(BENCHMARK_DEPENDENCIES[req.benchmark])
                       /\ e.data.details.message = "requires additional dependencies"
                  ELSE /\ e.data.details.dependency_info = None
                       /\ e.data.details.message \in { "failed due to missing dependencies",
                                                       "evaluation failed" }

\* the second process of a swe_bench run failed with 1010 characters of
\* import errors: remediation record and the first 1000 characters
C27_Witness ==
    /\ pc = "done"
    /\ Len(procs) = 2
    /\ procs[2].outcome = "exit_nonzero"
    /\ Len(procs[2].stderr) = 1010
    /\ MatchesDependencySignature(procs[2].stderr)
    /\ req.benchmark = "swe_bench"
    /\ events[Len(events)].data.details.dependency_info # None
    /\ Len(events[Len(events)].data.details.stderr) = 1000

\* ---------------------------------------------------------------------------
\* Consistency of the complete event
\* ---------------------------------------------------------------------------
\* C29: every complete event has 0 <= correct <= total, 0 <= score <= 1 and,
\* when total > 0, score = correct / total, whether its figures come from a
\* parsed log or from the output text, from one epoch or from several.
C29_CompleteEventConsistent ==
    \A k \in 1..Len(events) :
        events[k].type = "complete" =>
            LET d == events[k].data
            IN /\ 0 <= d.correct
               /\ d.correct <= d.total
               /\ FracLeq(Frac(0, 1), d.score)
               /\ FracLeq(d.score, Frac(1, 1))
               /\ d.total > 0 => FracEq(d.score, Frac(d.correct, d.total))

\* ---------------------------------------------------------------------------
\* Provider of the retried models
\* ---------------------------------------------------------------------------
\* C30: a retry posts, for every saved entry whose status is not complete,
\* in their order, a request whose provider is the provider saved in that
\* entry.
C30_RetryKeepsSavedProvider ==
    (retry_pc = "done" /\ retry_call.found # None /\ executed # <<>>) =>
        LET failed == SelectSeq(retry_call.found[1], LAMBDA r : r.status # "complete")
        IN /\ Len(executed) = Len(failed)
           /\ \A i \in 1..Len(failed) :
                 /\ executed[i].model = failed[i].model
                 /\ executed[i].provider = failed[i].provider

\* ---------------------------------------------------------------------------
\* The service: run_inspect_evaluation re-streams the events of the runner,
\* run_evaluation_sync (POST /run) reduces the stream to one response
\* ---------------------------------------------------------------------------
\* the keys of AVAILABLE_BENCHMARKS that the model's requests name
AVAILABLE_BENCHMARKS == { "mmlu", "swe_bench", "gaia" }

\* d.get(k, default) of a dict
Get(d, k, default) == IF k \in DOMAIN d THEN d[k] ELSE default

\* f"data: {json.dumps(event)}\n\n"
sse_chunk(event) == << "data: ", event >>

\* the error events the service builds itself
service_error(code, error) == [type |-> "error", code |-> code, error |-> error]

\* the events up to and including the first complete or error
RECURSIVE UpToTerminal(_)
UpToTerminal(evs) ==
    IF evs = <<>> THEN <<>>
    ELSE IF Head(evs).type \in { "complete", "error" } THEN << Head(evs) >>
    ELSE << Head(evs) >> \o UpToTerminal(Tail(evs))

\* the chunks run_inspect_evaluation yields for a request, given what
\* is_inspect_available returns and the events run_with_inspect_ai yields
run_inspect_evaluation(model, benchmark, limit, provider, seed, epochs, inspect_available, runner_events) ==
    LET provider_lower == IF provider # None THEN ProviderLower(provider[1]) ELSE "openrouter"
        start == [type |-> "start", model |-> model, benchmark |-> benchmark, limit |-> limit,
                  provider |-> provider_lower, seed |-> seed, epochs |-> epochs]
        using == [type |-> "progress", message |-> "Using Inspect AI"]
    IN IF benchmark \notin AVAILABLE_BENCHMARKS
       THEN << sse_chunk(service_error("BENCHMARK_NOT_FOUND", "Unknown benchmark")) >>
       ELSE IF provider_lower \notin DOMAIN PROVIDERS
       THEN << sse_chunk(service_error("PROVIDER_NOT_FOUND", "Unknown provider")) >>
       ELSE IF ~inspect_available
       THEN << sse_chunk(start),
               sse_chunk(service_error("INSPECT_NOT_INSTALLED", "not installed")) >>
       ELSE IF benchmark \notin DOMAIN SUPPORTED_BENCHMARKS
       THEN << sse_chunk(start),
               sse_chunk(service_error("BENCHMARK_NOT_FOUND", "not in supported list")) >>
       ELSE << sse_chunk(start), sse_chunk(using) >>
            \o [i \in 1..Len(UpToTerminal(runner_events)) |->
                    sse_chunk(UpToTerminal(runner_events)[i])]

\* responses of the endpoint
EvalResult(body) == [status |-> 200, body |-> body]

HTTPException(status_code, detail) == [status |-> status_code, detail |-> detail]

\* an exception no handler of the application catches
Unhandled(exception) == [status |-> 500, detail |-> "Internal Server Error", raised |-> exception]

\* the keys run_evaluation_sync reads from a complete event with data[...]
EvalResultKeys == { "model", "benchmark", "score", "total", "correct",
                    "duration_seconds", "timestamp" }

\* the body of the loop of run_evaluation_sync for the parsed chunk; None when
\* the loop goes on
sync_on_data(data) ==
    IF Get(data, "type", "") = "complete"
    THEN IF EvalResultKeys \subseteq DOMAIN data
         THEN Some(EvalResult([model |-> data.model, benchmark |-> data.benchmark,
                               score |-> data.score, total_samples |-> data.total,
                               correct |-> data.correct,
                               duration_seconds |-> data.duration_seconds,
                               timestamp |-> data.timestamp,
                               details |-> IF Get(data, "epochs", 1) > 1
                                           THEN Some([seed |-> Get(data, "seed", None),
                                                      epochs |-> Get(data, "epochs", None),
                                                      provider |-> Get(data, "provider", None)])
                                           ELSE None]))
         ELSE Some(Unhandled("KeyError"))
    ELSE IF Get(data, "type", "") = "error"
    THEN IF "error" \in DOMAIN data THEN Some(HTTPException(500, data.error))
         ELSE Some(Unhandled("KeyError"))
    ELSE None

\* "async for chunk in run_inspect_evaluation(...)" and the raise after it
RECURSIVE sync_loop(_, _)
sync_loop(chunks, i) ==
    IF i > Len(chunks) THEN HTTPException(500, "Evaluation did not complete")
    ELSE IF chunks[i][1] = "data: " /\ sync_on_data(chunks[i][2]) # None
    THEN sync_on_data(chunks[i][2])[1]
    ELSE sync_loop(chunks, i + 1)

\* "request.limit or 10" of an Optional[int]
IntOr(x, default) == IF x # None /\ x[1] # 0 THEN x[1] ELSE default

\* "request.provider or 'openrouter'" of an Optional[str]
StrOr(x, default) == IF Truthy(x) THEN x[1] ELSE default

run_evaluation_sync(request, inspect_available, runner_events) ==
    IF request.benchmark \notin AVAILABLE_BENCHMARKS
    THEN HTTPException(400, "Unknown benchmark")
    ELSE sync_loop(run_inspect_evaluation(request.model, request.benchmark,
                                          IntOr(request.limit, 10),
                                          Some(StrOr(request.provider, "openrouter")),
                                          request.seed, IntOr(request.epochs, 1),
                                          inspect_available, runner_events), 1)

\* the requests an EvalRequest admits that the model posts
EvalRequests ==
    [ model : { <<"g", "p", "t", "-", "4", "o">>, <<"o", "3", "-", "m", "i", "n", "i">> },
      benchmark : { "mmlu", "nope" },
      provider : { None, Some("openai") },
      limit : { None, Some(2) },
      seed : { None, Some(42) },
      epochs : { Some(1), Some(2) } ]

\* the extra fields of the complete event of the run of a request
CompleteExtra(request) ==
    [common |-> [model |-> request.model, benchmark |-> request.benchmark,
                 provider |-> StrOr(request.provider, "openrouter"),
                 provider_name |-> PROVIDERS[StrOr(request.provider, "openrouter")].name,
                 seed |-> request.seed],
     duration_seconds |-> 7]

\* terminal events run_with_inspect_ai yields for a request
RunnerTerminals(request) ==
    { create_complete(FracNorm(Frac(c, t)), c, t, CompleteExtra(request)) :
          c \in 0..2, t \in 2..3 }
    \cup { create_error("EVALUATION_TIMEOUT", [message |-> "Evaluation timed out"]),
           create_error("PARSE_ERROR", [message |-> "Failed to parse results"]),
           create_error("API_KEY_MISSING", [message |-> "API key not configured"]) }

\* what run_with_inspect_ai yields for a request: progress, perhaps a result,
\* then one terminal event
RunnerStreams(request) ==
    { << create_progress("dispatch", NoDetails), e >> : e \in RunnerTerminals(request) }
    \cup { << create_progress("dispatch", NoDetails),
              create_result(1, 2, TRUE, Frac(1, 1), 0, <<"B">>, <<"B">>, 1), e >> :
              e \in { x \in RunnerTerminals(request) : x.type = "complete" } }

SyncCalls ==
    UNION { { [request |-> r, inspect_available |-> a, runner_events |-> evs] :
                a \in BOOLEAN, evs \in RunnerStreams(r) } : r \in EvalRequests }

InitSync ==
    /\ sync_call \in SyncCalls
    /\ sync_response = None
    /\ RunIdle
    /\ BuildIdle
    /\ SampleIdle
    /\ LogIdle
    /\ RateIdle
    /\ RetryIdle
    /\ SvcIdle
    /\ ValidateIdle
    /\ CliIdle

\* POST /run
RunEvaluationSync ==
    /\ sync_response = None
    /\ sync_response' = Some(run_evaluation_sync(sync_call.request, sync_call.inspect_available,
                                                 sync_call.runner_events))
    /\ UNCHANGED << sync_call, baseVars, validateVars, cliVars >>

NextSync == RunEvaluationSync

SpecSync == InitSync /\ [][NextSync]_vars

\* the last event of what the runner yields
FinalEvent(evs) == evs[Len(evs)]

\* the request reaches run_with_inspect_ai
ReachesRunner(call) ==
    call.request.benchmark \in AVAILABLE_BENCHMARKS /\ call.inspect_available

\* C21: when the run of a POST /run request ends with the complete event of
\* the runner, the response is an EvalResult whose model, benchmark, score,
\* correct and total_samples are those of the event; when it ends with an
\* error event of the runner, the response is an HTTP 500 whose detail is the
\* message of the event.
C21_SyncReturnsFinalResult ==
    (sync_response # None /\ ReachesRunner(sync_call)) =>
        LET e == FinalEvent(sync_call.runner_events)
            response == sync_response[1]
        IN IF e.type = "complete"
           THEN /\ response.status = 200
                /\ response.body.model = e.data.extra.common.model
                /\ response.body.benchmark = e.data.extra.common.benchmark
                /\ response.body.score = e.data.score
                /\ response.body.correct = e.data.correct
                /\ response.body.total_samples = e.data.total
           ELSE /\ response.status = 500
                /\ response.detail = e.data.details.message

\* ---------------------------------------------------------------------------
\* The CLI: "bench run" (cmd_run) gathers one run_single_benchmark coroutine
\* per model; each posts to /run/stream and reads the lines of the answer
\* ---------------------------------------------------------------------------
\* the dict run_single_benchmark starts with; error is None while the dict has
\* no "error" key
initial_results(model, benchmark, limit, provider) ==
    [model |-> model, benchmark |-> benchmark, provider |-> provider, limit |-> limit,
     status |-> "running", score |-> Frac(0, 1), correct |-> 0, total |-> 0,
     duration_seconds |-> 0, error |-> None]

\* the JSON body of the POST to /run/stream
request_json(model, benchmark, limit, provider) ==
    [model |-> model, benchmark |-> benchmark, limit |-> limit, provider |-> provider]

\* f"HTTP {response.status_code}"
HttpErrorText(status_code) ==
    CASE status_code = 400 -> "HTTP 400"
      [] status_code = 429 -> "HTTP 429"
      [] OTHER -> "HTTP 500"

\* "if response.status_code != 200"
http_error(results, status_code) ==
    [results EXCEPT !.status = "error", !.error = Some(HttpErrorText(status_code))]

stream_failed_keeps_running(results, e) == results

\* "except Exception as e"
stream_failed(results, e) == [results EXCEPT !.status = "error", !.error = Some(e)]

\* the body of "async for line in response.aiter_lines()"
on_line(results, line) ==
    IF line[1] # "data: " THEN results
    ELSE IF Get(line[2], "type", "") = "complete"
    THEN [results EXCEPT !.status = "complete",
                         !.score = Get(line[2], "score", Frac(0, 1)),
                         !.correct = Get(line[2], "correct", 0),
                         !.total = Get(line[2], "total", results.limit),
                         !.duration_seconds = Get(line[2], "duration_seconds", 0)]
    ELSE IF Get(line[2], "type", "") = "error"
    THEN [results EXCEPT !.status = "error",
                         !.error = Some(Get(line[2], "error", "Unknown error"))]
    ELSE results

\* the lines of a stream of chunks: each chunk is its data line and a blank line
RECURSIVE aiter_lines(_)
aiter_lines(chunks) ==
    IF chunks = <<>> THEN <<>>
    ELSE << Head(chunks), << "", None >> >> \o aiter_lines(Tail(chunks))

\* the EvalRequest the service builds from a posted body: absent fields take
\* their defaults
eval_request_of(body) ==
    [model |-> body.model, benchmark |-> body.benchmark, provider |-> Some(body.provider),
     limit |-> Some(body.limit), seed |-> Get(body, "seed", None),
     epochs |-> Some(Get(body, "epochs", 1))]

\* POST /run/stream: status and chunks
stream_evaluation(request, inspect_available, runner_events) ==
    IF request.benchmark \notin AVAILABLE_BENCHMARKS
    THEN [status |-> 400, chunks |-> <<>>]
    ELSE [status |-> 200,
          chunks |-> run_inspect_evaluation(request.model, request.benchmark,
                                            IntOr(request.limit, 10),
                                            Some(StrOr(request.provider, "openrouter")),
                                            request.seed, IntOr(request.epochs, 1),
                                            inspect_available, runner_events)]

\* what run_with_inspect_ai yields for the request of a CLI run
CliRunnerStreams(request) ==
    { << create_progress("dispatch", NoDetails),
         create_complete(Frac(1, 2), 1, 2, CompleteExtra(request)) >>,
      << create_progress("dispatch", NoDetails),
         create_result(1, 1, TRUE, Frac(1, 1), 0, <<"B">>, <<"B">>, 1),
         create_complete(Frac(1, 1), 1, 1, CompleteExtra(request)) >>,
      << create_error("EVALUATION_TIMEOUT", [message |-> "Evaluation timed out"]) >> }

\* the answer to a POST as the client sees it: the status (0 when the
\* connection failed), the lines received, and whether the stream then breaks
\* with an exception
Answer(status, lines, raises) == [status |-> status, lines |-> lines, raises |-> raises]

ServiceAnswers(body) ==
    { Answer(0, <<>>, TRUE), Answer(429, <<>>, FALSE) }
    \cup { Answer(stream_evaluation(eval_request_of(body), TRUE, evs).status,
                  aiter_lines(stream_evaluation(eval_request_of(body), TRUE, evs).chunks),
                  FALSE) : evs \in CliRunnerStreams(eval_request_of(body)) }
    \cup { Answer(stream_evaluation(eval_request_of(body), FALSE, <<>>).status,
                  aiter_lines(stream_evaluation(eval_request_of(body), FALSE, <<>>).chunks),
                  FALSE),
           Answer(200, aiter_lines(<< sse_chunk([type |-> "progress", message |-> "Using Inspect AI"]) >>),
                  TRUE) }

CliCommands ==
    [ models : { << "m1" >>, << "m1", "m2" >> },
      benchmark : { "mmlu", "nope" },
      limit : { 2 },
      provider : { "openrouter", "openai" },
      seed : { None, Some(42) },
      epochs : { 1, 2 },
      yes : BOOLEAN ]

InitSession ==
    /\ cli_args \in CliCommands
    /\ cli_pc = "start"
    /\ cli_epoch = 0
    /\ cli_tasks = <<>>
    /\ cli_requests = <<>>
    /\ cli_results = <<>>
    /\ RunIdle
    /\ BuildIdle
    /\ SampleIdle
    /\ LogIdle
    /\ RateIdle
    /\ RetryIdle
    /\ SvcIdle
    /\ ValidateIdle
    /\ SyncIdle

\* cmd_run up to the confirmation prompt
CmdRunStart ==
    /\ cli_pc = "start"
    /\ cli_pc' = IF cli_args.yes THEN "epoch" ELSE "confirm"
    /\ UNCHANGED << cli_args, cli_epoch, cli_tasks, cli_requests, cli_results,
                    baseVars, validateVars, syncVars >>

\* console.input: "n" aborts, every other answer goes on
CmdRunConfirm ==
    /\ cli_pc = "confirm"
    /\ \E answer \in { "n", "y" } : cli_pc' = IF answer = "n" THEN "done" ELSE "epoch"
    /\ UNCHANGED << cli_args, cli_epoch, cli_tasks, cli_requests, cli_results,
                    baseVars, validateVars, syncVars >>

\* run_parallel_benchmarks creates one coroutine per model
GatherBegin ==
    /\ cli_pc = "epoch"
    /\ cli_epoch < cli_args.epochs
    /\ cli_tasks' = [i \in 1..Len(cli_args.models) |->
                        [pc |-> "post", answer |-> None, pos |-> 0,
                         results |-> initial_results(cli_args.models[i], cli_args.benchmark,
                                                     cli_args.limit, cli_args.provider)]]
    /\ cli_pc' = "gather"
    /\ UNCHANGED << cli_args, cli_epoch, cli_requests, cli_results,
                    baseVars, validateVars, syncVars >>

\* a coroutine posts its request and sees the status of the answer
TaskPost(i) ==
    /\ cli_pc = "gather"
    /\ cli_tasks[i].pc = "post"
    /\ LET body == request_json(cli_tasks[i].results.model, cli_tasks[i].results.benchmark,
                                cli_tasks[i].results.limit, cli_tasks[i].results.provider)
       IN /\ cli_requests' = Append(cli_requests, body)
          /\ \E answer \in ServiceAnswers(body) :
                cli_tasks' = [cli_tasks EXCEPT ![i] =
                    IF answer.status = 0
                    THEN [@ EXCEPT !.pc = "done", !.answer = Some(answer),
                                   !.results = stream_failed(@, "ConnectError")]
                    ELSE IF answer.status # 200
                    THEN [@ EXCEPT !.pc = "done", !.answer = Some(answer),
                                   !.results = http_error(@, answer.status)]
                    ELSE [@ EXCEPT !.pc = "stream", !.answer = Some(answer)]]
    /\ UNCHANGED << cli_args, cli_pc, cli_epoch, cli_results, baseVars, validateVars, syncVars >>

\* a coroutine reads the next line of its answer, or finds the stream ended
\* or broken
TaskLine(i) ==
    /\ cli_pc = "gather"
    /\ cli_tasks[i].pc = "stream"
    /\ cli_tasks' = [cli_tasks EXCEPT ![i] =
          IF @.pos < Len(@.answer[1].lines)
          THEN [@ EXCEPT !.pos = @ + 1,
                         !.results = on_line(@, cli_tasks[i].answer[1].lines[cli_tasks[i].pos + 1])]
          ELSE IF @.answer[1].raises
          THEN [@ EXCEPT !.pc = "done", !.results = stream_failed(@, "ReadError")]
          ELSE [@ EXCEPT !.pc = "done"]]
    /\ UNCHANGED << cli_args, cli_pc, cli_epoch, cli_requests, cli_results,
                    baseVars, validateVars, syncVars >>

\* asyncio.gather: the results of the coroutines, in the order of the models
gathered(tasks) == [i \in 1..Len(tasks) |-> tasks[i].results]

\* result["epoch"] = epoch + 1; result["seed"] = seed
tagged(result, ep, seed) == [result |-> result, epoch |-> ep + 1, seed |-> seed]

\* every coroutine has returned: cmd_run tags the results of the epoch
GatherEnd ==
    /\ cli_pc = "gather"
    /\ \A i \in 1..Len(cli_tasks) : cli_tasks[i].pc = "done"
    /\ cli_results' = cli_results \o [i \in 1..Len(cli_tasks) |->
                          tagged(gathered(cli_tasks)[i], cli_epoch, cli_args.seed)]
    /\ cli_epoch' = cli_epoch + 1
    /\ cli_pc' = IF cli_epoch + 1 < cli_args.epochs THEN "epoch" ELSE "done"
    /\ UNCHANGED << cli_args, cli_tasks, cli_requests, baseVars, validateVars, syncVars >>

NextSession ==
    \/ CmdRunStart
    \/ CmdRunConfirm
    \/ GatherBegin
    \/ \E i \in 1..Len(cli_tasks) : TaskPost(i)
    \/ \E i \in 1..Len(cli_tasks) : TaskLine(i)
    \/ GatherEnd

SpecSession == InitSession /\ [][NextSession]_vars

\* ---------------------------------------------------------------------------
\* A failing model in a multi-model session
\* ---------------------------------------------------------------------------
\* the events of the data lines of an answer
DataEvents(answer) ==
    [k \in 1..Len(SelectSeq(answer.lines, LAMBDA l : l[1] = "data: ")) |->
        SelectSeq(answer.lines, LAMBDA l : l[1] = "data: ")[k][2]]

\* the run behind an answer failed: no 200, an error event, or a broken stream
FailedAnswer(answer) ==
    \/ answer.status # 200
    \/ answer.raises
    \/ \E k \in 1..Len(DataEvents(answer)) : DataEvents(answer)[k].type = "error"

\* the dict a coroutine holds after the first n lines of its answer
RECURSIVE AfterLines(_, _, _)
AfterLines(results, lines, n) ==
    IF n = 0 THEN results ELSE on_line(AfterLines(results, lines, n - 1), lines[n])

\* C22: in a session of several models every gather returns exactly one
\* result per requested model, in the order of the models; the result of a
\* model whose run failed (no 200, an error event, an exception while
\* streaming) has status error, and the result of every model whose run did
\* not fail is what its own answer alone gives, with status complete,
\* whatever happened to the other models.
C22_FailureStaysWithItsModel ==
    /\ Len(cli_results) = cli_epoch * (IF cli_args = None THEN 0 ELSE Len(cli_args.models))
    /\ \A k \in 1..Len(cli_results) :
          LET i == ((k - 1) % Len(cli_args.models)) + 1
          IN /\ cli_results[k].result.model = cli_args.models[i]
             /\ cli_results[k].epoch = ((k - 1) \div Len(cli_args.models)) + 1
             /\ cli_results[k].result.status \in { "complete", "error" }
    /\ \A i \in 1..Len(cli_tasks) :
          cli_tasks[i].pc = "done" =>
              LET answer == cli_tasks[i].answer[1]
                  results == cli_tasks[i].results
              IN /\ results.model = cli_args.models[i]
                 /\ FailedAnswer(answer) => results.status = "error"
                 /\ ~FailedAnswer(answer) =>
                       /\ results.status = "complete"
                       /\ results = AfterLines(initial_results(cli_args.models[i],
                                                   cli_args.benchmark, cli_args.limit,
                                                   cli_args.provider),
                                               answer.lines, Len(answer.lines))
    /\ (cli_pc \in { "epoch", "done" } /\ cli_epoch > 0) =>
          \A i \in 1..Len(cli_tasks) :
              cli_results[(cli_epoch - 1) * Len(cli_tasks) + i].result = cli_tasks[i].results

\* a finished session of two models: the stream of the first broke with an
\* exception after the second had completed, and the second is complete
C22_Witness ==
    /\ cli_pc = "done"
    /\ Len(cli_args.models) = 2
    /\ Len(cli_results) = 2
    /\ cli_tasks[1].answer[1].raises
    /\ cli_tasks[1].answer[1].status = 200
    /\ cli_results[1].result.status = "error"
    /\ cli_results[1].result.error = Some("ReadError")
    /\ cli_results[2].result.status = "complete"
    /\ cli_results[2].result.model = "m2"

\* ---------------------------------------------------------------------------
\* The seed of "bench run"
\* ---------------------------------------------------------------------------
\* C23: every request posted by "bench run --seed S" carries the seed S, and
\* the run the service starts for it has that seed.
C23_SeedCarriedInEveryRequest ==
    /\ \A k \in 1..Len(cli_requests) : Get(cli_requests[k], "seed", None) = cli_args.seed
    /\ \A i \in 1..Len(cli_tasks) :
          cli_tasks[i].answer # None =>
              \A k \in 1..Len(DataEvents(cli_tasks[i].answer[1])) :
                  DataEvents(cli_tasks[i].answer[1])[k].type = "start"
                      => DataEvents(cli_tasks[i].answer[1])[k].seed = cli_args.seed

\* ---------------------------------------------------------------------------
\* The result the CLI records for a re-streamed terminal event
\* ---------------------------------------------------------------------------
\* the event is one of the runner: its fields lie under "data"
RunnerEvent(e) == "data" \in DOMAIN e

\* C25: when the answer re-streams the complete event of the runner, the
\* result recorded for the model has status complete and the score, correct,
\* total and duration_seconds of the event; when it re-streams an error
\* event of the runner, the result has status error and the message of the
\* event.
C25_RecordedResultMatchesEvent ==
    \A i \in 1..Len(cli_tasks) :
        (cli_tasks[i].pc = "done" /\ cli_tasks[i].answer[1].status = 200
            /\ ~cli_tasks[i].answer[1].raises) =>
            \A k \in 1..Len(DataEvents(cli_tasks[i].answer[1])) :
                LET e == DataEvents(cli_tasks[i].answer[1])[k]
                    results == cli_tasks[i].results
                IN /\ (RunnerEvent(e) /\ e.type = "complete") =>
                          /\ results.status = "complete"
                          /\ results.score = e.data.score
                          /\ results.correct = e.data.correct
                          /\ results.total = e.data.total
                          /\ results.duration_seconds = e.data.extra.duration_seconds
                   /\ (RunnerEvent(e) /\ e.type = "error") =>
                          /\ results.status = "error"
                          /\ results.error = Some(e.data.details.message)

====
